---- MODULE Spec2Model ----
(***************************************************************************)
(* A model of the query/cache engine of src/state/query/lib.ts.           *)
(*                                                                         *)
(* Every Query of the query map is a record; the methods of the Query     *)
(* class are operators from a "world" (all queries, the query map, the    *)
(* external store and the pending store notifications) to the world after *)
(* the call.  A handler of the single-threaded event loop (an API call, a *)
(* timer firing, a promise continuation) is one action: it applies the    *)
(* handler's operator to the current state.                               *)
(*                                                                         *)
(* The functions of the library that can be called on their own are       *)
(* applied, in specifications of their own, to arguments held in `args`;  *)
(* what the call returned is held in `returned`.                          *)
(***************************************************************************)
EXTENDS Integers, Sequences, FiniteSets, TLC

VARIABLES queries, queryMap, keys, options, ext, hung, args, returned

vars == <<queries, queryMap, keys, options, ext, hung, args, returned>>

-----------------------------------------------------------------------------
(* Bounds of the model *)

\* the values a fetch may return are 1..MaxData
MaxData == 2
\* the number of external subscribers a Query may have at a time
MaxSubscribers == 1
\* the values of the external store are 0..MaxExt
MaxExt == 1
\* the number of queued store notifications run before the run is declared endless
DrainFuel == 3
\* the calls of fetchFn since its last ['ok', _] are counted up to MaxAttempts
MaxAttempts == 2
\* a query key has up to MaxSubkeys subkeys
MaxSubkeys == 1
\* the translation proxy is accessed along paths of up to MaxPath properties
MaxPath == 3
\* where subscribers come and go, a Query has up to MaxAttached of them
MaxAttached == 2

-----------------------------------------------------------------------------
(* Values *)

Keys == {"dep", "q"}
Data == 1..MaxData
Errs == {"e1"}
ExtValues == {[value |-> v] : v \in 0..MaxExt}

browser == TRUE

\* the `false` of `number | false` and `Date | false`
False == <<"false">>
Ms(n) == <<"ms", n>>
Date == <<"date">>
\* the `undefined` of `timeout: NodeJS.Timeout | undefined`
NoTimeout == 0

QueryResultIdle == [status |-> "idle"]
QueryResultLoading == [status |-> "loading"]
QueryResultErr(isRefetching, err) == [status |-> "err", isRefetching |-> isRefetching, err |-> err]
QueryResultOk(data) == [status |-> "ok", data |-> data]

QUERY_INIT == [status |-> "QUERY_INIT"]

FetchResultOk == {<<"ok", d>> : d \in Data}
FetchResultErr == {<<"err", e>> : e \in Errs}
FetchResultRetry == {<<"retry", [err |-> e, returnError |-> b]>> : e \in Errs, b \in BOOLEAN}
FetchResult == FetchResultRetry \cup FetchResultErr \cup FetchResultOk

OnChangeResults == {"nothing", "refetch", "clearCacheAndRefetch", "stop"}
\* no onStale callback answers like "nothing"
OnStaleResults == {"nothing", "becomeStale", "staleAndClear"}

deepEqual(a, b) == a = b

-----------------------------------------------------------------------------
(* Options *)

QueryDependencySubscription == [kind |-> "subscription"]
QueryDepdendencyQuery(key) == [kind |-> "query", key |-> key]

\* the callbacks a caller may pass as options.onRetry, by name
defaultOnRetry(count) == IF count > 3 THEN False ELSE Ms(0)
twoRetriesOnRetry(count) == IF count >= 3 THEN False ELSE Ms(0)

onRetry(policy, count) ==
    CASE policy = "default" -> defaultOnRetry(count)
      [] policy = "twoRetries" -> twoRetriesOnRetry(count)
      [] policy = "never" -> False

\* the callbacks a caller may pass as stale.duration and cache.duration, by name
duration(policy, last) ==
    IF policy = "never" THEN False ELSE Ms(5000)

DefaultOptions ==
    [dependencies |-> <<>>,
     onRetry |-> "default",
     stale |-> [onSubscribeIfUnused |-> FALSE, duration |-> "never", refetchIfUnused |-> FALSE],
     cache |-> [duration |-> "never"]]

-----------------------------------------------------------------------------
(* The state of one Query *)

NewLoopFromOne ==
    [pc |-> "start", count |-> 1, calls |-> 0, retries |-> <<>>, returnedError |-> FALSE,
     result |-> <<"none">>]

\* a fetch loop: where it is, its `count`, and what it has done so far (the calls
\* of fetchFn, the counts given to onRetry, whether a retry asked for the error
\* to be shown, the last result of fetchFn)
NewLoop ==
    [pc |-> "start", count |-> 0, calls |-> 0, retries |-> <<>>, returnedError |-> FALSE,
     result |-> <<"none">>]

\* what the last handler did with the Query: the fetch loop it ended (how, after
\* how many calls of fetchFn and of onRetry, on which result of fetchFn), the
\* calls of fetchFn it made, whether it ran into "Fetcher called while
\* already fetching", which handler of this Query it was (with its argument),
\* and the calls of its dependencies' onChange and onStale the handler made
\* (see onChangeReturned, onStaleReturned)
NoHistory ==
    [exit |-> "none", calls |-> 0, retries |-> <<>>, returnedError |-> FALSE,
     result |-> <<"none">>,
     fetched |-> FALSE, fetchedStopped |-> FALSE, fetchedUnregistered |-> FALSE,
     alreadyFetching |-> FALSE,
     handler |-> <<"none">>,
     onChange |-> <<>>,
     onStale |-> <<>>]

NewDependency == [last |-> QUERY_INIT, lastWasStale |-> FALSE, promise |-> "none"]

\* the fields of a Query and of its QueryMapItem, the timers pending for it,
\* its fetch loops in flight, and what an observer of the Query has seen:
\*   attempts   the calls of fetchFn since fetchFn last returned ['ok', _]
\*   freshOk    the last fetch loop ended in ok and markStale has not been
\*              called since
\*   markedStale  markStale was called without forceRefetch while hasCached,
\*              and the cache has not been set or cleared since
\*   instances  the Queries constructed for this key; the record is the last
\*              of them, the one useQuery put into the query map
\*   notFound   invalidate, invalidateAndRefetch, refetch, markStale or
\*              updateData was called with this key and found no Query
\*   history    what the last handler did
NewQuery(opts) ==
    [isFetching |-> FALSE,
     stoppedBy |-> {},
     dataInUse |-> FALSE,
     subscribers |-> 0,
     current |-> QueryResultIdle,
     stale |-> [turnsStaleAt |-> False, duration |-> False, timeout |-> NoTimeout, isStale |-> TRUE],
     cache |-> [expiresAt |-> False, duration |-> False, timeout |-> NoTimeout,
                hasCached |-> FALSE, data |-> <<"none">>],
     timers |-> [stale |-> {}, cache |-> {}],
     loops |-> <<>>,
     threw |-> FALSE,
     deps |-> [i \in 1..Len(opts.dependencies) |-> NewDependency],
     attempts |-> 0,
     freshOk |-> FALSE,
     markedStale |-> FALSE,
     instances |-> 0,
     notFound |-> FALSE,
     history |-> NoHistory]

currentWithoutCaching_(q) == q.current

currentWithCachedData_(q) ==
    IF q.current.status = "idle" THEN q.current
    ELSE IF q.cache.data[1] = "some" THEN QueryResultOk(q.cache.data[2])
    ELSE IF ~q.stale.isStale THEN q.current
    ELSE QueryResultLoading

\* the derived store: the result a subscriber of the Query sees
currentWithCaching_(q) ==
    IF q.current.status = "idle" THEN q.current
    ELSE IF ~q.stale.isStale
         THEN IF q.current.status = "loading" /\ q.cache.data[1] = "some"
              THEN QueryResultOk(q.cache.data[2])
              ELSE q.current
         ELSE IF q.cache.hasCached /\ q.cache.data[1] = "some"
              THEN QueryResultOk(q.cache.data[2])
              ELSE QueryResultLoading

\* setTimeout: a handle no pending timer and no kept handle uses
setTimeout(pending, handle) ==
    CHOOSE t \in 1..(Cardinality(pending) + 2) :
        /\ t \notin pending \cup {handle}
        /\ \A u \in 1..(Cardinality(pending) + 2) : u \notin pending \cup {handle} => t <= u

clearTimeout(pending, handle) == pending \ {handle}

RemoveAt(s, i) == [j \in 1..(Len(s) - 1) |-> IF j < i THEN s[j] ELSE s[j + 1]]

-----------------------------------------------------------------------------
(* The world the methods act on.                                           *)
(*   qs, queryMap, ext   the program state                                 *)
(*   tape, onStale       what the caller's onChange and onStale callbacks  *)
(*                       answer in this handler, in the order asked        *)
(*   queue, running      svelte's subscriber_queue: the notifications of   *)
(*                       the `query` stores still to be run                *)
(*   hung                the handler does not return                       *)
(*   got                 what the last get(query.current) returned         *)
(*   reaction            what the caller's subscriber of the exposed       *)
(*                       result does when it is told the result of a loop  *)

World(tape, os) ==
    [qs |-> [k \in Keys |-> [queries[k] EXCEPT !.history = NoHistory]],
     queryMap |-> queryMap, ext |-> ext,
     tape |-> tape, onStale |-> os,
     queue |-> <<>>, running |-> FALSE, hung |-> FALSE, got |-> QUERY_INIT,
     reaction |-> <<"nothing">>]

\* the handler h of Query k starts
handling(W, k, h) == [W EXCEPT !.qs[k].history.handler = h]

\* the answers of n calls of onChange
Tapes(n) == [1..n -> OnChangeResults]

RECURSIVE fetcher(_, _)
RECURSIVE loopIteration(_, _, _)
RECURSIVE afterLoop(_, _, _, _)
RECURSIVE clearCache(_, _, _)
RECURSIVE setData(_, _, _)
RECURSIVE resetStaleTimer(_, _, _)
RECURSIVE markStale(_, _, _)
RECURSIVE invalidateAndRefetch(_, _)
RECURSIVE refetch(_, _)
RECURSIVE subscribe(_, _)
RECURSIVE unsubscribe(_, _)
RECURSIVE onChangeResult(_, _, _, _)
RECURSIVE dependencyQueryChanged(_, _, _)
RECURSIVE update(_, _)
RECURSIVE runQueue(_, _)

\* The query map is an object of objects; here, a function from the paths
\* that lead to something to what is there: "object" for a `{}`, or the Query
\* (its name) whose `query` store is there.  A property set on a store is a
\* path through that Query.
Prefixes(key) == {SubSeq(key, 1, n) : n \in 1..Len(key)}
isPrefix(p, key) == Len(p) <= Len(key) /\ SubSeq(key, 1, Len(p)) = p

\* the query map after the walk of getQuery along key: `qmItem[subKey] = {}`
\* wherever `qmItem[subKey] === undefined`
vivified(qm, key) ==
    [p \in DOMAIN qm \cup Prefixes(key) |-> IF p \in DOMAIN qm THEN qm[p] ELSE "object"]

\* what getQuery returns: the Query at the end of the walk if what is there
\* has `subscribe` and `current`
getQuery(qm, key) ==
    IF key \in DOMAIN qm /\ qm[key] # "object" THEN qm[key] ELSE "undefined"

\* `item[key[key.length - 1]] = query`: what was there, and all it led to, is
\* no longer in the map
assigned(qm, key, k) ==
    [p \in {p \in DOMAIN qm : ~isPrefix(key, p)} \cup {key} |-> IF p = key THEN k ELSE qm[p]]

NoPaths == [p \in {} |-> "object"]

\* the dependents whose addDependencyQuery callback is subscribed to the
\* `query` store of Query dk
AllDependencies ==
    <<[k |-> "dep", i |-> 0], [k |-> "dep", i |-> 1], [k |-> "q", i |-> 0], [k |-> "q", i |-> 1]>>

isSubscribedTo(W, s, dk) ==
    /\ s.i < Len(options[s.k].dependencies)
    /\ options[s.k].dependencies[s.i + 1].kind = "query"
    /\ options[s.k].dependencies[s.i + 1].key = dk
    /\ W.qs[s.k].deps[s.i + 1].promise = "wired"

storeSubscribers(W, dk) ==
    SelectSeq(AllDependencies, LAMBDA s : isSubscribedTo(W, s, dk))

\* svelte's writable.set on the `query` store of Query k (query.update)
update(W, k) ==
    LET W1 == [W EXCEPT !.queue = @ \o storeSubscribers(W, k)] IN
    IF W.running THEN W1
    ELSE runQueue([W1 EXCEPT !.running = TRUE], DrainFuel)

runQueue(W, fuel) ==
    IF W.queue = <<>> THEN [W EXCEPT !.running = FALSE]
    ELSE IF fuel = 0 THEN [W EXCEPT !.hung = TRUE, !.queue = <<>>, !.running = FALSE]
    ELSE runQueue(dependencyQueryChanged([W EXCEPT !.queue = Tail(@)],
                                         Head(W.queue).k, Head(W.queue).i), fuel - 1)

\* the query-dependencies of Query k whose key has no Query in the query map
unregisteredDependencies(W, k) ==
    {i \in 0..(Len(options[k].dependencies) - 1) :
        /\ options[k].dependencies[i + 1].kind = "query"
        /\ getQuery(W.queryMap, keys[options[k].dependencies[i + 1].key]) = "undefined"}

loopIterationWithoutStop(W, k, li) ==
    LET q == W.qs[k] IN
    [W EXCEPT !.qs[k] =
        [q EXCEPT !.loops[li] = [@ EXCEPT !.pc = "fetch", !.calls = @ + 1],
                  !.attempts = IF @ < MaxAttempts THEN @ + 1 ELSE @,
                  !.history = [@ EXCEPT
                      !.fetched = TRUE,
                      !.fetchedStopped = @ \/ q.stoppedBy # {},
                      !.fetchedUnregistered = @ \/ unregisteredDependencies(W, k) # {}]]]

\* one pass of the `while (true)` of Query.fetcher up to `await this.fetch()`
loopIteration(W, k, li) ==
    LET q == W.qs[k] IN
    IF q.stoppedBy # {}
    THEN [W EXCEPT !.qs[k] =
            [q EXCEPT !.current = QueryResultIdle,
                      !.isFetching = FALSE,
                      !.loops = RemoveAt(@, li),
                      !.history = [@ EXCEPT !.exit = "stopped",
                                            !.calls = q.loops[li].calls,
                                            !.retries = q.loops[li].retries,
                                            !.returnedError = q.loops[li].returnedError]]]
    ELSE [W EXCEPT !.qs[k] =
            [q EXCEPT !.loops[li] = [@ EXCEPT !.pc = "fetch", !.calls = @ + 1],
                      !.attempts = IF @ < MaxAttempts THEN @ + 1 ELSE @,
                      !.history = [@ EXCEPT
                          !.fetched = TRUE,
                          !.fetchedStopped = @ \/ q.stoppedBy # {},
                          !.fetchedUnregistered = @ \/ unregisteredDependencies(W, k) # {}]]]

fetcherWithoutGuard(W, k) ==
    LET q == W.qs[k] IN
    IF ~browser THEN W
    ELSE IF ~q.stale.isStale THEN W
    ELSE loopIteration([W EXCEPT !.qs[k] = [q EXCEPT !.isFetching = TRUE,
                                                     !.current = QueryResultLoading,
                                                     !.loops = Append(@, NewLoop)]],
                       k, Len(q.loops) + 1)

fetcher(W, k) ==
    LET q == W.qs[k] IN
    IF ~browser THEN W
    ELSE IF ~q.stale.isStale THEN W
    ELSE IF q.isFetching THEN [W EXCEPT !.qs[k].history.alreadyFetching = TRUE]
    ELSE loopIteration([W EXCEPT !.qs[k] = [q EXCEPT !.isFetching = TRUE,
                                                     !.current = QueryResultLoading,
                                                     !.loops = Append(@, NewLoop)]],
                       k, Len(q.loops) + 1)

afterLoopLocked(W, k, li, exit) ==
    LET q == W.qs[k]
        current == q.current
    IN  [(IF current.status = "ok"
          THEN setData(W, k, current.data)
          ELSE clearCache(W, k, FALSE))
           EXCEPT !.qs[k].loops = RemoveAt(@, li),
                  !.qs[k].freshOk = (current.status = "ok"),
                  !.qs[k].history = [@ EXCEPT !.exit = exit]]

\* Query.fetcher after the loop (the check of `this.current`, the cache)
afterLoop(W, k, li, exit) ==
    LET q == W.qs[k]
        current == q.current
        done(h) == [h EXCEPT !.exit = exit, !.calls = q.loops[li].calls,
                             !.retries = q.loops[li].retries,
                             !.returnedError = q.loops[li].returnedError]
    IN  IF current.status = "idle" \/ current.status = "loading"
        THEN [W EXCEPT !.qs[k] = [q EXCEPT !.threw = TRUE,
                                           !.loops = RemoveAt(@, li),
                                           !.history = done(@)]]
        ELSE [(IF current.status = "ok"
               THEN setData(W, k, current.data)
               ELSE clearCache(W, k, FALSE))
                EXCEPT !.qs[k].isFetching = FALSE,
                       !.qs[k].loops = RemoveAt(@, li),
                       !.qs[k].freshOk = (current.status = "ok"),
                       !.qs[k].history = done(@)]

\* what the callback of a subscriber of the exposed result may call, in the
\* callback, of the API and of its own subscription
Reactions ==
    {<<"nothing">>, <<"refetch">>, <<"invalidateAndRefetch">>, <<"invalidate">>,
     <<"markStale">>, <<"unsubscribe">>, <<"resubscribe">>}
        \cup {<<"updateData", d>> : d \in Data}

\* `this.current.set(...)` of a result that ends the loop: the derived store
\* runs the callbacks of the subscribers before `set` returns
currentSet(W, k, current) ==
    LET r == W.reaction
        W1 == [W EXCEPT !.qs[k].current = current, !.reaction = <<"nothing">>]
    IN  IF W.qs[k].subscribers = 0 THEN [W EXCEPT !.qs[k].current = current]
        ELSE CASE r[1] = "refetch" -> refetch(W1, k)
               [] r[1] = "invalidateAndRefetch" -> invalidateAndRefetch(W1, k)
               [] r[1] = "invalidate" -> clearCache(W1, k, FALSE)
               [] r[1] = "markStale" -> markStale(W1, k, FALSE)
               [] r[1] = "updateData" -> setData(W1, k, r[2])
               [] r[1] = "unsubscribe" -> unsubscribe(W1, k)
               [] r[1] = "resubscribe" -> subscribe(unsubscribe(W1, k), k)
               [] OTHER -> W1

\* Query.fetcher from the point `await this.fetch()` returns `result`
fetchReturned(W, k, li, result) ==
    LET loop == W.qs[k].loops[li]
        W0 == [W EXCEPT !.qs[k].history.result = result,
                        !.qs[k].loops[li].result = result]
    IN  IF result[1] = "retry"
        THEN LET count == loop.count + 1
                 err == result[2].err
                 returnError == result[2].returnError
                 waitDuration == onRetry(options[k].onRetry, count)
                 W1 == [W0 EXCEPT !.qs[k].loops[li] =
                           [@ EXCEPT !.count = count,
                                     !.retries = Append(@, count),
                                     !.returnedError = @ \/ returnError]]
             IN  IF waitDuration = False
                 THEN afterLoop(currentSet(W1, k, QueryResultErr(FALSE, err)), k, li, "retry")
                 ELSE LET W2 == IF returnError
                                THEN [clearCache(W1, k, FALSE) EXCEPT
                                        !.qs[k].current = QueryResultErr(TRUE, err)]
                                ELSE [W1 EXCEPT !.qs[k].current = QueryResultLoading]
                      IN [W2 EXCEPT !.qs[k].loops[li].pc = "wait"]
        ELSE IF result[1] = "err"
        THEN afterLoop(currentSet(W0, k, QueryResultErr(FALSE, result[2])), k, li, "err")
        ELSE afterLoop(currentSet([W0 EXCEPT !.qs[k].attempts = 0], k, QueryResultOk(result[2])),
                       k, li, "ok")

clearCacheKeepingTimer(W, k, forceRefetch) ==
    LET q == W.qs[k]
        W1 == [W EXCEPT !.qs[k] =
                 [q EXCEPT !.cache = [@ EXCEPT !.hasCached = FALSE,
                                               !.duration = False,
                                               !.expiresAt = False]]]
    IN markStale(update(W1, k), k, forceRefetch)

clearCacheWithoutMarkStale(W, k, forceRefetch) ==
    LET q == W.qs[k] IN
    update([W EXCEPT !.qs[k] =
               [q EXCEPT !.timers.cache = clearTimeout(@, q.cache.timeout),
                         !.markedStale = FALSE,
                         !.cache = [@ EXCEPT !.timeout = NoTimeout,
                                             !.hasCached = FALSE,
                                             !.duration = False,
                                             !.expiresAt = False]]],
           k)

clearCache(W, k, forceRefetch) ==
    LET q == W.qs[k]
        W1 == [W EXCEPT !.qs[k] =
                 [q EXCEPT !.timers.cache = clearTimeout(@, q.cache.timeout),
                           !.cache = [@ EXCEPT !.timeout = NoTimeout,
                                               !.hasCached = FALSE,
                                               !.duration = False,
                                               !.expiresAt = False]]]
    IN markStale(update(W1, k), k, forceRefetch)

resetStaleTimerWithoutClear(W, k, current) ==
    LET q == W.qs[k]
        d == duration(options[k].stale.duration, current)
        timeout == setTimeout(q.timers.stale, q.stale.timeout)
        W1 == [W EXCEPT !.qs[k] =
                 IF d = False
                 THEN [q EXCEPT !.stale = [@ EXCEPT !.duration = d,
                                                    !.turnsStaleAt = False,
                                                    !.timeout = NoTimeout]]
                 ELSE [q EXCEPT !.timers.stale = @ \cup {timeout},
                                !.stale = [@ EXCEPT !.duration = d,
                                                    !.turnsStaleAt = Date,
                                                    !.timeout = timeout]]]
    IN update(W1, k)

resetStaleTimer(W, k, current) ==
    LET q == W.qs[k]
        pending == clearTimeout(q.timers.stale, q.stale.timeout)
        d == duration(options[k].stale.duration, current)
        timeout == setTimeout(pending, q.stale.timeout)
        W1 == [W EXCEPT !.qs[k] =
                 IF d = False
                 THEN [q EXCEPT !.timers.stale = pending,
                                !.stale = [@ EXCEPT !.duration = d,
                                                    !.turnsStaleAt = False,
                                                    !.timeout = NoTimeout]]
                 ELSE [q EXCEPT !.timers.stale = pending \cup {timeout},
                                !.stale = [@ EXCEPT !.duration = d,
                                                    !.turnsStaleAt = Date,
                                                    !.timeout = timeout]]]
    IN update(W1, k)

setCacheWithoutTimer(W, k, data) ==
    [W EXCEPT !.qs[k].markedStale = FALSE,
              !.qs[k].cache = [@ EXCEPT !.data = <<"some", data>>,
                                        !.hasCached = TRUE,
                                        !.duration = duration(options[k].cache.duration, data)]]

\* setData after `this.resetStaleTimer(...)`: the cache and its timer
setCache(W, k, data) ==
    LET q == W.qs[k]
        pending == clearTimeout(q.timers.cache, q.cache.timeout)
        d == duration(options[k].cache.duration, data)
        timeout == setTimeout(pending, q.cache.timeout)
    IN  [W EXCEPT !.qs[k] =
           IF d = False
           THEN [q EXCEPT !.timers.cache = pending,
                          !.markedStale = FALSE,
                          !.cache = [@ EXCEPT !.data = <<"some", data>>,
                                              !.hasCached = TRUE,
                                              !.duration = d,
                                              !.expiresAt = False,
                                              !.timeout = NoTimeout]]
           ELSE [q EXCEPT !.timers.cache = pending \cup {timeout},
                          !.markedStale = FALSE,
                          !.cache = [@ EXCEPT !.data = <<"some", data>>,
                                              !.hasCached = TRUE,
                                              !.duration = d,
                                              !.expiresAt = Date,
                                              !.timeout = timeout]]]

setDataWithoutCache(W, k, data) ==
    update(resetStaleTimer([W EXCEPT !.qs[k].current = QueryResultOk(data)],
                           k, QueryResultOk(data)),
           k)

setData(W, k, data) ==
    update(setCache(resetStaleTimer([W EXCEPT !.qs[k].current = QueryResultOk(data)],
                                    k, QueryResultOk(data)),
                    k, data),
           k)

refetchAlways(W, k, forceRefetch) == fetcher(W, k)

\* markStale after `this.query.update(...)`
refetchIfNeeded(W, k, forceRefetch) ==
    LET dataInUse == W.qs[k].dataInUse
        refetchIfUnused == options[k].stale.refetchIfUnused
    IN  IF forceRefetch \/ dataInUse \/ refetchIfUnused
        THEN fetcher(W, k)
        ELSE W

markStale(W, k, forceRefetch) ==
    LET q == W.qs[k]
        W1 == [W EXCEPT !.qs[k] =
                 [q EXCEPT !.timers.stale = clearTimeout(@, q.stale.timeout),
                           !.freshOk = FALSE,
                           !.markedStale = (@ \/ ~forceRefetch) /\ q.cache.hasCached,
                           !.stale = [@ EXCEPT !.timeout = NoTimeout,
                                               !.isStale = TRUE,
                                               !.duration = False,
                                               !.turnsStaleAt = False]]]
    IN refetchIfNeeded(update(W1, k), k, forceRefetch)

invalidateAndRefetch(W, k) == clearCache(W, k, TRUE)

refetchIfInUse(W, k) == markStale(W, k, FALSE)

refetchClearingCache(W, k) == clearCache(W, k, TRUE)

refetch(W, k) == markStale(W, k, TRUE)

subscribeAsFirst(W, k) ==
    LET W2 == [W EXCEPT !.qs[k].subscribers = @ + 1, !.qs[k].dataInUse = TRUE] IN
    IF options[k].stale.onSubscribeIfUnused
    THEN markStale(W2, k, FALSE)
    ELSE IF W2.qs[k].stale.isStale
         THEN refetch(W2, k)
         ELSE W2

\* currentWithCaching.subscribe
subscribe(W, k) ==
    LET W1 == [W EXCEPT !.qs[k].subscribers = @ + 1] IN
    IF W1.qs[k].subscribers = 1
    THEN LET W2 == [W1 EXCEPT !.qs[k].dataInUse = TRUE] IN
         IF options[k].stale.onSubscribeIfUnused
         THEN markStale(W2, k, FALSE)
         ELSE IF W2.qs[k].stale.isStale
              THEN refetch(W2, k)
              ELSE W2
    ELSE W1

\* the unsubscriber currentWithCaching.subscribe returns
unsubscribe(W, k) ==
    LET W1 == [W EXCEPT !.qs[k].subscribers = @ - 1] IN
    IF W1.qs[k].subscribers = 0
    THEN [W1 EXCEPT !.qs[k].dataInUse = FALSE]
    ELSE W1

\* what a dependency's onChange answers, and the tape after it
nextAnswer(W) == IF W.tape = <<>> THEN "nothing" ELSE Head(W.tape)
answered(W) == [W EXCEPT !.tape = IF @ = <<>> THEN @ ELSE Tail(@)]

\* what the caller of onChange can see of the Query
view(q) ==
    [stoppedBy |-> q.stoppedBy, hasCached |-> q.cache.hasCached, data |-> q.cache.data,
     current |-> q.current, isFetching |-> q.isFetching, loops |-> Len(q.loops)]

\* onChange(last, current) of dependency i answered `result` and its branch has
\* run: the Query as it was before (in Before) and as it is after (in W)
onChangeReturned(Before, W, k, i, current, result) ==
    [W EXCEPT !.qs[k].history.onChange =
        Append(@, [i |-> i, current |-> current, result |-> result,
                   before |-> view(Before.qs[k]), after |-> view(W.qs[k])])]

onChangeResultKeepingStop(W, k, i, result) ==
    CASE result = "nothing" ->
            [W EXCEPT !.qs[k].stoppedBy = @ \ {i}]
      [] result = "refetch" ->
            refetch(W, k)
      [] result = "clearCacheAndRefetch" ->
            invalidateAndRefetch([W EXCEPT !.qs[k].stoppedBy = @ \ {i}], k)
      [] result = "stop" ->
            invalidateAndRefetch([W EXCEPT !.qs[k].stoppedBy = @ \cup {i}], k)

\* the branches on the result of dependency.onChange
onChangeResult(W, k, i, result) ==
    CASE result = "nothing" ->
            [W EXCEPT !.qs[k].stoppedBy = @ \ {i}]
      [] result = "refetch" ->
            refetch([W EXCEPT !.qs[k].stoppedBy = @ \ {i}], k)
      [] result = "clearCacheAndRefetch" ->
            invalidateAndRefetch([W EXCEPT !.qs[k].stoppedBy = @ \ {i}], k)
      [] result = "stop" ->
            invalidateAndRefetch([W EXCEPT !.qs[k].stoppedBy = @ \cup {i}], k)

\* the callback addDependencySubscription subscribes to the external store
dependencySubscriptionChanged(W, k, i, current) ==
    LET last == W.qs[k].deps[i + 1].last IN
    IF deepEqual(last, current) THEN W
    ELSE [onChangeReturned(W, onChangeResult(answered(W), k, i, nextAnswer(W)),
                           k, i, current, nextAnswer(W))
            EXCEPT !.qs[k].deps[i + 1].last = current]

addDependencySubscription(W, k, i) ==
    dependencySubscriptionChanged(
        [W EXCEPT !.qs[k].deps[i + 1] = [@ EXCEPT !.last = QUERY_INIT, !.promise = "subscribed"]],
        k, i, W.ext)

\* the callback addDependencyQuery subscribes to the dependency's `query` store
\* svelte's get(query.current): subscribe, read the value, unsubscribe
run(W, dk) == [W EXCEPT !.got = currentWithCaching_(W.qs[dk])]

get(W, dk) == unsubscribe(run(subscribe(W, dk), dk), dk)

\* onStale() of dependency i answered `result` and its branch has run
onStaleReturned(Before, W, k, i, result) ==
    [W EXCEPT !.qs[k].history.onStale =
        Append(@, [i |-> i, result |-> result,
                   before |-> view(Before.qs[k]), after |-> view(W.qs[k])])]

\* the branches on the result of dependency.onStale, when the dependency is
\* stale and was not the last time
onStaleResult(W, k, i, dk) ==
    IF W.qs[dk].stale.isStale /\ ~W.qs[k].deps[i + 1].lastWasStale
    THEN onStaleReturned(
            W,
            CASE W.onStale = "becomeStale" -> markStale(W, k, FALSE)
              [] W.onStale = "staleAndClear" -> clearCache(W, k, FALSE)
              [] OTHER -> W,
            k, i, W.onStale)
    ELSE W

dependencyCurrentChangedAlways(W, k, i, dk, current) ==
    LET W4 == [W EXCEPT !.qs[k].deps[i + 1].lastWasStale = W.qs[dk].stale.isStale]
    IN  [onChangeReturned(W4, onChangeResult(answered(W4), k, i, nextAnswer(W4)),
                          k, i, current, nextAnswer(W4))
            EXCEPT !.qs[k].deps[i + 1].last = current]

\* the callback from `dependency.lastWasStale = query.stale.isStale` on
dependencyCurrentChanged(W, k, i, dk, current) ==
    LET W4 == [W EXCEPT !.qs[k].deps[i + 1].lastWasStale = W.qs[dk].stale.isStale]
    IN  IF deepEqual(W4.qs[k].deps[i + 1].last, current) THEN W4
        ELSE [onChangeReturned(W4, onChangeResult(answered(W4), k, i, nextAnswer(W4)),
                               k, i, current, nextAnswer(W4))
                EXCEPT !.qs[k].deps[i + 1].last = current]

\* the callback from `const current = get(query.current)` on
dependencyQueryGot(W, k, i, dk) ==
    dependencyCurrentChanged(onStaleResult(W, k, i, dk), k, i, dk, W.got)

dependencyQueryChanged(W, k, i) ==
    dependencyQueryGot(get(W, options[k].dependencies[i + 1].key),
                       k, i, options[k].dependencies[i + 1].key)

\* addDependencyQuery up to the promise: the Query is stopped and waits for
\* the dependency's key in the query map
addDependencyQuery(W, k, i) ==
    LET dk == options[k].dependencies[i + 1].key IN
    [W EXCEPT !.qs[k].stoppedBy = @ \cup {i},
              !.qs[k].deps[i + 1] =
                  [@ EXCEPT !.last = QUERY_INIT,
                            !.lastWasStale = FALSE,
                            !.promise = IF getQuery(W.queryMap, keys[dk]) = "undefined"
                                        THEN "pending" ELSE "resolved"],
              !.queryMap = vivified(@, keys[dk])]

RECURSIVE subscribeFrom(_, _, _)
subscribeFrom(W, k, i) ==
    IF i >= Len(options[k].dependencies) THEN W
    ELSE subscribeFrom(IF options[k].dependencies[i + 1].kind = "subscription"
                       THEN addDependencySubscription(W, k, i)
                       ELSE addDependencyQuery(W, k, i),
                       k, i + 1)

subscribeToDependencies(W, k) == subscribeFrom(W, k, 0)

\* new Query(queryMap, key, fetch, options)
constructor(W, k) ==
    fetcher(subscribeToDependencies(
                [W EXCEPT !.qs[k] = [NewQuery(options[k]) EXCEPT
                                        !.history = W.qs[k].history,
                                        !.instances = W.qs[k].instances + 1,
                                        !.notFound = W.qs[k].notFound]],
                k), k)

\* the callbacks the waiting dependents subscribed to the query map
queryMapChanged(W) ==
    [W EXCEPT !.qs = [d \in Keys |->
        [W.qs[d] EXCEPT !.deps = [i \in DOMAIN @ |->
            IF /\ @[i].promise = "pending"
               /\ getQuery(W.queryMap, keys[options[d].dependencies[i].key]) # "undefined"
            THEN [@[i] EXCEPT !.promise = "resolved"]
            ELSE @[i]]]]]

useQuery(W, k) ==
    LET W1 == [W EXCEPT !.queryMap = vivified(@, keys[k])] IN
    IF getQuery(W.queryMap, keys[k]) # "undefined" THEN W1
    ELSE queryMapChanged([constructor(W1, k) EXCEPT !.queryMap = assigned(@, keys[k], k)])

-----------------------------------------------------------------------------
(* The handlers of the event loop *)

\* a handler that does not return leaves the state it was entered in
Commit(W) ==
    /\ hung' = W.hung
    /\ queries' = IF W.hung THEN queries ELSE W.qs
    /\ queryMap' = IF W.hung THEN queryMap ELSE W.queryMap
    /\ ext' = IF W.hung THEN ext ELSE W.ext
    /\ UNCHANGED <<keys, options, args, returned>>

hasDependents(k) ==
    \E d \in Keys : \E i \in 1..Len(options[d].dependencies) :
        /\ options[d].dependencies[i].kind = "query"
        /\ options[d].dependencies[i].key = k
        /\ queries[d].deps[i].promise = "wired"

\* the answers the callbacks run by a handler on Query k may give
TapesFor(k) == IF hasDependents(k) THEN Tapes(1) ELSE Tapes(0)
\* onStale is asked only on a dependency turning stale
OnStaleFor(k) ==
    IF \E d \in Keys : \E i \in 1..Len(options[d].dependencies) :
          /\ options[d].dependencies[i].kind = "query"
          /\ options[d].dependencies[i].key = k
          /\ queries[d].deps[i].promise = "wired"
          /\ (~queries[d].deps[i].lastWasStale \/ ~queries[k].stale.isStale)
    THEN OnStaleResults
    ELSE {"nothing"}

UseQuery(k) ==
    /\ ~hung
    /\ getQuery(queryMap, keys[k]) = "undefined"
    /\ \E tape \in Tapes(Cardinality({i \in 1..Len(options[k].dependencies) :
                                         options[k].dependencies[i].kind = "subscription"})) :
          Commit(useQuery(handling(World(tape, "nothing"), k, <<"useQuery">>), k))

\* useQuery of a key whose Query exists: `return get(existingQuery).current`
UseExistingQuery(k) ==
    /\ ~hung
    /\ getQuery(queryMap, keys[k]) # "undefined"
    /\ Commit(useQuery(handling(World(<<>>, "nothing"), k, <<"useQuery">>), k))

\* the API's getQuery(key)
GetQuery(k) ==
    /\ ~hung
    /\ Commit([handling(World(<<>>, "nothing"), k, <<"getQuery">>)
                  EXCEPT !.queryMap = vivified(@, keys[k])])

Dispatchers == {"invalidateAndRefetch", "invalidate", "refetch", "markStale", "updateData"}

\* a method of a Query that was not found, called all the same
NotFoundIgnored(k, fn) ==
    /\ ~hung
    /\ getQuery(queryMap, keys[k]) = "undefined"
    /\ Commit(refetch([handling(World(<<>>, "nothing"), k, <<"notFound", fn>>)
                          EXCEPT !.queryMap = vivified(@, keys[k]),
                                 !.qs[k].notFound = TRUE], k))

\* invalidateAndRefetch, invalidate, refetch, markStale, updateData of a key
\* with no Query: `if (query === undefined) return`
NotFound(k, fn) ==
    /\ ~hung
    /\ getQuery(queryMap, keys[k]) = "undefined"
    /\ Commit([handling(World(<<>>, "nothing"), k, <<"notFound", fn>>)
                  EXCEPT !.queryMap = vivified(@, keys[k]),
                         !.qs[k].notFound = TRUE])

Subscribe(k) ==
    /\ ~hung
    /\ getQuery(queryMap, keys[k]) # "undefined"
    /\ queries[k].subscribers < MaxSubscribers
    /\ \E tape \in TapesFor(k), os \in OnStaleFor(k) :
          Commit(subscribe(handling(World(tape, os), k, <<"subscribe">>), k))

\* one more subscriber, up to MaxAttached
Attach(k) ==
    /\ ~hung
    /\ getQuery(queryMap, keys[k]) # "undefined"
    /\ queries[k].subscribers < MaxAttached
    /\ \E tape \in TapesFor(k), os \in OnStaleFor(k) :
          Commit(subscribe(handling(World(tape, os), k, <<"subscribe">>), k))

Unsubscribe(k) ==
    /\ ~hung
    /\ getQuery(queryMap, keys[k]) # "undefined"
    /\ queries[k].subscribers > 0
    /\ Commit(unsubscribe(handling(World(<<>>, "nothing"), k, <<"unsubscribe">>), k))

InvalidateAndRefetch(k) ==
    /\ ~hung
    /\ getQuery(queryMap, keys[k]) # "undefined"
    /\ \E tape \in TapesFor(k), os \in OnStaleFor(k) :
          Commit(invalidateAndRefetch(handling(World(tape, os), k, <<"invalidateAndRefetch">>), k))

Invalidate(k) ==
    /\ ~hung
    /\ getQuery(queryMap, keys[k]) # "undefined"
    /\ \E tape \in TapesFor(k), os \in OnStaleFor(k) :
          Commit(clearCache(handling(World(tape, os), k, <<"invalidate">>), k, FALSE))

Refetch(k) ==
    /\ ~hung
    /\ getQuery(queryMap, keys[k]) # "undefined"
    /\ \E tape \in TapesFor(k), os \in OnStaleFor(k) :
          Commit(refetch(handling(World(tape, os), k, <<"refetch">>), k))

MarkStale(k) ==
    /\ ~hung
    /\ getQuery(queryMap, keys[k]) # "undefined"
    /\ \E tape \in TapesFor(k), os \in OnStaleFor(k) :
          Commit(markStale(handling(World(tape, os), k, <<"markStale">>), k, FALSE))

UpdateData(k, data) ==
    /\ ~hung
    /\ getQuery(queryMap, keys[k]) # "undefined"
    /\ \E tape \in TapesFor(k), os \in OnStaleFor(k) :
          Commit(setData(handling(World(tape, os), k, <<"updateData", data>>), k, data))

FetchReturnsUnlessStopped(k, result) ==
    /\ ~hung
    /\ \E li \in 1..Len(queries[k].loops) :
          /\ queries[k].loops[li].pc = "fetch"
          /\ \E tape \in TapesFor(k), os \in OnStaleFor(k) :
                IF queries[k].stoppedBy # {}
                THEN Commit(loopIteration(
                        [handling(World(tape, os), k, <<"fetchReturns">>)
                            EXCEPT !.qs[k].history.result = result], k, li))
                ELSE Commit(fetchReturned(handling(World(tape, os), k, <<"fetchReturns">>),
                                          k, li, result))

\* the promise of `await this.fetch()` is fulfilled with `result`
FetchReturns(k, result) ==
    /\ ~hung
    /\ \E li \in 1..Len(queries[k].loops) :
          /\ queries[k].loops[li].pc = "fetch"
          /\ \E tape \in TapesFor(k), os \in OnStaleFor(k) :
                Commit(fetchReturned(handling(World(tape, os), k, <<"fetchReturns">>), k, li, result))

\* the same, with a subscriber whose callback calls into the library, and
\* dependents that pass no onStale
FetchReturnsNotifying(k, result, reaction) ==
    /\ ~hung
    /\ queries[k].subscribers > 0
    /\ \E li \in 1..Len(queries[k].loops) :
          /\ queries[k].loops[li].pc = "fetch"
          /\ \E tape \in TapesFor(k) :
                Commit(fetchReturned([handling(World(tape, "nothing"), k, <<"fetchReturns">>)
                                         EXCEPT !.reaction = reaction],
                                     k, li, result))

\* the timer of the retry wait fires
RetryWaitOver(k) ==
    /\ ~hung
    /\ \E li \in 1..Len(queries[k].loops) :
          /\ queries[k].loops[li].pc = "wait"
          /\ Commit(loopIteration(handling(World(<<>>, "nothing"), k, <<"retryWaitOver">>), k, li))

\* the timer resetStaleTimer set fires: () => this.markStale()
StaleTimeout(k) ==
    /\ ~hung
    /\ \E t \in queries[k].timers.stale :
          \E tape \in TapesFor(k), os \in OnStaleFor(k) :
             Commit(markStale([handling(World(tape, os), k, <<"staleTimeout">>)
                                 EXCEPT !.qs[k].timers.stale = @ \ {t}], k, FALSE))

\* the timer setData set fires: () => this.clearCache()
CacheTimeout(k) ==
    /\ ~hung
    /\ \E t \in queries[k].timers.cache :
          \E tape \in TapesFor(k), os \in OnStaleFor(k) :
             Commit(clearCache([handling(World(tape, os), k, <<"cacheTimeout">>)
                                  EXCEPT !.qs[k].timers.cache = @ \ {t}], k, FALSE))

\* the external store a subscription-dependency observes is set to v
RECURSIVE notifySubscriptions(_, _, _)
notifySubscriptions(W, subs, v) ==
    IF subs = <<>> THEN W
    ELSE notifySubscriptions(
            IF /\ Head(subs).i < Len(options[Head(subs).k].dependencies)
               /\ W.qs[Head(subs).k].deps[Head(subs).i + 1].promise = "subscribed"
            THEN dependencySubscriptionChanged(W, Head(subs).k, Head(subs).i, v)
            ELSE W,
            Tail(subs), v)

ExtSet(v) ==
    /\ ~hung
    /\ \E tape \in Tapes(Cardinality({s \in {AllDependencies[n] : n \in 1..Len(AllDependencies)} :
                                         /\ s.i < Len(options[s.k].dependencies)
                                         /\ queries[s.k].deps[s.i + 1].promise = "subscribed"})) :
          Commit(notifySubscriptions([World(tape, "nothing") EXCEPT !.ext = v], AllDependencies, v))

\* the `.then` of addDependencyQuery: the dependency exists, subscribe to it
DependencyFound(k, i) ==
    /\ ~hung
    /\ i < Len(options[k].dependencies)
    /\ queries[k].deps[i + 1].promise = "resolved"
    /\ \E tape \in Tapes(2), os \in OnStaleResults :
          Commit(dependencyQueryChanged(
                    [World(tape, os) EXCEPT !.qs[k].deps[i + 1].promise = "wired"], k, i))

-----------------------------------------------------------------------------
(* Specifications *)

TypeOptions(deps, retry, staleDuration, cacheDuration, flags) ==
    [dependencies |-> deps,
     onRetry |-> retry,
     stale |-> [onSubscribeIfUnused |-> flags[1], duration |-> staleDuration, refetchIfUnused |-> flags[2]],
     cache |-> [duration |-> cacheDuration]]

InitWith(optionSets) ==
    /\ options \in optionSets
    /\ queries = [k \in Keys |-> NewQuery(options[k])]
    /\ queryMap = NoPaths
    /\ keys = [k \in Keys |-> <<k>>]
    /\ ext = [value |-> 0]
    /\ hung = FALSE
    /\ args = <<>>
    /\ returned = <<>>

Step(k) ==
    \/ UseQuery(k)
    \/ Subscribe(k)
    \/ Unsubscribe(k)
    \/ InvalidateAndRefetch(k)
    \/ Invalidate(k)
    \/ Refetch(k)
    \/ MarkStale(k)
    \/ \E d \in Data : UpdateData(k, d)
    \/ \E r \in FetchResult : FetchReturns(k, r)
    \/ RetryWaitOver(k)
    \/ StaleTimeout(k)
    \/ CacheTimeout(k)

\* one Query, "q", without dependencies, with the options of QueryOptions
QueryOptions ==
    {DefaultOptions,
     TypeOptions(<<>>, "twoRetries", "never", "never", <<FALSE, FALSE>>),
     TypeOptions(<<>>, "never", "timed", "timed", <<FALSE, FALSE>>),
     TypeOptions(<<>>, "never", "timed", "timed", <<TRUE, FALSE>>),
     TypeOptions(<<>>, "never", "timed", "never", <<FALSE, TRUE>>)}

Init == InitWith({[dep |-> DefaultOptions, q |-> o] : o \in QueryOptions})

Next == Step("q")

Spec == Init /\ [][Next]_vars

\* one Query, "q", with one or two subscription-dependencies, no timer and no
\* subscriber
SubscriptionOptions ==
    {TypeOptions(<<QueryDependencySubscription>>, "default", "never", "never", <<FALSE, FALSE>>),
     TypeOptions(<<QueryDependencySubscription, QueryDependencySubscription>>,
                 "never", "never", "never", <<FALSE, FALSE>>)}

InitSubscriptions == InitWith({[dep |-> DefaultOptions, q |-> o] : o \in SubscriptionOptions})

NextSubscriptions ==
    \/ UseQuery("q")
    \/ InvalidateAndRefetch("q")
    \/ \E r \in FetchResult : FetchReturns("q", r)
    \/ RetryWaitOver("q")
    \/ \E v \in ExtValues : ExtSet(v)

SpecSubscriptions == InitSubscriptions /\ [][NextSubscriptions]_vars

\* a call of fetchFn is awaited: FetchReturns is enabled
awaitingFetch(k) == \E li \in 1..Len(queries[k].loops) : queries[k].loops[li].pc = "fetch"

\* the same, where the promise of every call of fetchFn is fulfilled and the
\* timer of every retry wait fires.  FetchReturns is enabled exactly while a
\* call of fetchFn is awaited and each of its steps ends that await, so its
\* weak fairness, WF_vars(\E r \in FetchResult : FetchReturns("q", r)), is
\* that again and again no call is awaited.
Resolves ==
    /\ []<>(~hung => ~awaitingFetch("q"))
    /\ WF_vars(RetryWaitOver("q"))

SpecResolves == SpecSubscriptions /\ Resolves

\* two Queries, "q" depending on "dep"; no retry, no timer, fetches that
\* succeed, and of the API useQuery, a subscriber of "dep" and
\* invalidateAndRefetch of "dep"
DependentOptions ==
    {TypeOptions(d, "never", "never", "never", <<FALSE, FALSE>>) :
        d \in {<<QueryDepdendencyQuery("dep")>>,
               <<QueryDependencySubscription, QueryDepdendencyQuery("dep")>>,
               <<QueryDepdendencyQuery("dep"), QueryDependencySubscription>>}}

NoDependencies == TypeOptions(<<>>, "never", "never", "never", <<FALSE, FALSE>>)

InitDeps == InitWith({[dep |-> NoDependencies, q |-> o] : o \in DependentOptions})

NextDeps ==
    \/ \E k \in Keys :
          \/ UseQuery(k)
          \/ \E r \in FetchResultOk : FetchReturns(k, r)
    \/ Subscribe("dep")
    \/ InvalidateAndRefetch("dep")
    \/ \E v \in ExtValues : ExtSet(v)
    \/ \E k \in Keys, i \in {0, 1} : DependencyFound(k, i)

SpecDeps == InitDeps /\ [][NextDeps]_vars

\* the same, with the query-dependency first
InitOnChange ==
    InitWith({[dep |-> NoDependencies, q |-> o] :
                 o \in {TypeOptions(d, "never", "never", "never", <<FALSE, FALSE>>) :
                           d \in {<<QueryDepdendencyQuery("dep")>>,
                                  <<QueryDepdendencyQuery("dep"), QueryDependencySubscription>>}}})

\* the API but for invalidateAndRefetch
NextOnChange ==
    \/ \E k \in Keys :
          \/ UseQuery(k)
          \/ \E r \in FetchResultOk : FetchReturns(k, r)
    \/ Subscribe("dep")
    \/ \E v \in ExtValues : ExtSet(v)
    \/ DependencyFound("q", 0)

SpecOnChange == InitOnChange /\ [][NextOnChange]_vars

\* "q" depending on "dep", which has a subscription-dependency
InitChain ==
    InitWith({[dep |-> TypeOptions(<<QueryDependencySubscription>>,
                                   "never", "never", "never", <<FALSE, FALSE>>),
               q |-> TypeOptions(<<QueryDepdendencyQuery("dep")>>,
                                 "never", "never", "never", <<FALSE, FALSE>>)]})

SpecChain == InitChain /\ [][NextDeps]_vars

\* two Queries without dependencies, retries and timers under any two keys
\* (up to the names of the segments: those of the first key are "a"), and every function
\* of the API that takes a key
Segments == {"a", "b"}

RECURSIVE KeysOfLength(_)
KeysOfLength(n) ==
    IF n = 0 THEN {<<>>} ELSE {Append(p, seg) : p \in KeysOfLength(n - 1), seg \in Segments}

QueryKeys == UNION {KeysOfLength(n) : n \in 1..(1 + MaxSubkeys)}

InitRegistry ==
    /\ options = [k \in Keys |-> NoDependencies]
    /\ queries = [k \in Keys |-> NewQuery(options[k])]
    /\ queryMap = NoPaths
    /\ keys \in {ks \in [Keys -> QueryKeys] :
                    /\ ks["dep"] # ks["q"]
                    /\ \A n \in 1..Len(ks["dep"]) : ks["dep"][n] = "a"}
    /\ ext = [value |-> 0]
    /\ hung = FALSE
    /\ args = <<>>
    /\ returned = <<>>

NextRegistry ==
    \E k \in Keys :
        \/ UseQuery(k)
        \/ UseExistingQuery(k)
        \/ GetQuery(k)
        \/ \E fn \in Dispatchers : NotFound(k, fn)
        \/ Refetch(k)
        \/ \E r \in FetchResultOk : FetchReturns(k, r)

SpecRegistry == InitRegistry /\ [][NextRegistry]_vars

\* one Query, "q", without dependencies, retries and timers, whose
\* subscribers come and go
InUseOptions ==
    {TypeOptions(<<>>, "never", "never", "never", <<b, FALSE>>) : b \in BOOLEAN}

InitInUse == InitWith({[dep |-> DefaultOptions, q |-> o] : o \in InUseOptions})

NextInUse ==
    \/ UseQuery("q")
    \/ Attach("q")
    \/ Unsubscribe("q")
    \/ MarkStale("q")
    \/ \E r \in FetchResultErr \cup FetchResultOk : FetchReturns("q", r)

SpecInUse == InitInUse /\ [][NextInUse]_vars

\* "q" depending on "dep", whose subscriber calls into the library when it
\* is told the result of a loop; fetches that fail, no retry
NotifiedOptions ==
    {TypeOptions(<<>>, "never", "never", "never", <<FALSE, FALSE>>)}

InitNotified ==
    InitWith({[dep |-> o,
               q |-> TypeOptions(<<QueryDepdendencyQuery("dep")>>,
                                 "never", "never", "never", <<FALSE, FALSE>>)] :
                 o \in NotifiedOptions})

NextNotified ==
    \/ \E k \in Keys : UseQuery(k)
    \/ Subscribe("dep")
    \/ DependencyFound("q", 0)
    \/ \E r \in FetchResult, reaction \in Reactions : FetchReturnsNotifying("dep", r, reaction)
    \/ \E r \in FetchResultOk : FetchReturns("q", r)

SpecNotified == InitNotified /\ [][NextNotified]_vars

\* "q" with a dependency of each kind, the first on "dep"; what "dep" fetches
\* and what the external store is set to change or stay the same
InitObserved ==
    InitWith({[dep |-> NoDependencies,
               q |-> TypeOptions(<<QueryDepdendencyQuery("dep"), QueryDependencySubscription>>,
                                 "never", "never", "never", <<FALSE, FALSE>>)]})

NextObserved ==
    \/ \E k \in Keys : UseQuery(k)
    \/ Subscribe("dep")
    \/ InvalidateAndRefetch("dep")
    \/ \E r \in FetchResultOk : FetchReturns("dep", r)
    \/ \E v \in ExtValues : ExtSet(v)
    \/ DependencyFound("q", 0)

SpecObserved == InitObserved /\ [][NextObserved]_vars

\* "q" depending on "dep", whose subscriber comes and goes
InitUnused ==
    InitWith({[dep |-> NoDependencies,
               q |-> TypeOptions(<<QueryDepdendencyQuery("dep")>>,
                                 "never", "never", "never", <<FALSE, FALSE>>)]})

NextUnused ==
    \/ \E k \in Keys : UseQuery(k)
    \/ Subscribe("dep")
    \/ Unsubscribe("dep")
    \/ InvalidateAndRefetch("dep")
    \/ \E r \in FetchResultOk \cup FetchResultErr : FetchReturns("dep", r)
    \/ DependencyFound("q", 0)

SpecUnused == InitUnused /\ [][NextUnused]_vars

\* no Query in use: the functions of the library applied on their own
Idle ==
    /\ options = [k \in Keys |-> DefaultOptions]
    /\ queries = [k \in Keys |-> NewQuery(options[k])]
    /\ queryMap = NoPaths
    /\ keys = [k \in Keys |-> <<k>>]
    /\ ext = [value |-> 0]
    /\ hung = FALSE

\* the values of `current`
QueryResults ==
    {QueryResultIdle, QueryResultLoading}
        \cup {QueryResultOk(d) : d \in Data}
        \cup {QueryResultErr(b, e) : b \in BOOLEAN, e \in Errs}

\* the values of `cache.hasCached` and `cache.data`; setData sets both, and
\* clearCache keeps the data
CacheStates ==
    {<<FALSE, <<"none">>>>}
        \cup {<<b, <<"some", d>>>> : b \in BOOLEAN, d \in Data}

\* the derived store currentWithCaching_ run on every value of its two stores
InitDerived ==
    /\ Idle
    /\ args \in {[NewQuery(DefaultOptions) EXCEPT
                      !.current = c, !.stale.isStale = s,
                      !.cache.hasCached = h[1], !.cache.data = h[2]] :
                  c \in QueryResults, s \in BOOLEAN, h \in CacheStates}
    /\ returned = <<>>

Derive ==
    /\ returned = <<>>
    /\ returned' = <<currentWithCaching_(args)>>
    /\ UNCHANGED <<queries, queryMap, keys, options, ext, hung, args>>

NextDerived == Derive

SpecDerived == InitDerived /\ [][NextDerived]_vars

\* A JavaScript object is a function from its own keys to its values; a
\* value is <<"undefined">>, <<"object", o>> for an object o (what typeof
\* calls 'object') or <<"value", v>> for anything else.
Undefined == <<"undefined">>
Value(v) == <<"value", v>>
Object(o) == <<"object", o>>

\* obj[key]
property(obj, key) == IF key \in DOMAIN obj THEN obj[key] ELSE Undefined

\* {...a, ...b}
spread(a, b) ==
    [key \in DOMAIN a \cup DOMAIN b |-> IF key \in DOMAIN b THEN b[key] ELSE a[key]]

RECURSIVE recursiveRemoveUndefined(_)
recursiveRemoveUndefined(obj) ==
    [key \in {key \in DOMAIN obj : obj[key][1] # "undefined"} |->
        IF obj[key][1] = "object"
        THEN Object(recursiveRemoveUndefined(obj[key][2]))
        ELSE obj[key]]

\* the initializer of Query.options, as an object
defaultOptions ==
    [key \in {"dependencies", "onRetry", "stale", "cache"} |->
        CASE key = "dependencies" -> Value(DefaultOptions.dependencies)
          [] key = "onRetry" -> Value(DefaultOptions.onRetry)
          [] key = "stale" ->
                Object([f \in {"onSubscribeIfUnused", "duration", "refetchIfUnused"} |->
                           Value(DefaultOptions.stale[f])])
          [] key = "cache" ->
                Object([f \in {"duration"} |-> Value(DefaultOptions.cache[f])])]

\* the constructor's this.options, given the options passed to useQuery
constructorOptions(passed) == spread(defaultOptions, recursiveRemoveUndefined(passed))

\* a key left out of an object literal
Absent == <<"absent">>
literal(fields) == [key \in {key \in DOMAIN fields : fields[key][1] # "absent"} |-> fields[key]]

\* the RecursivePartial<UseQueryOptions> a caller may pass: every field
\* left out, undefined, or a value other than the default
PassedStale ==
    {literal(o) : o \in [onSubscribeIfUnused : {Absent, Undefined, Value(TRUE)},
                         duration : {Absent, Undefined, Value("timed")},
                         refetchIfUnused : {Absent, Undefined, Value(TRUE)}]}

PassedCache == {literal(o) : o \in [duration : {Absent, Undefined, Value("timed")}]}

PassedOptions ==
    {literal(o) : o \in [onRetry : {Absent, Undefined, Value("never")},
                         stale : {Absent, Undefined} \cup {Object(g) : g \in PassedStale},
                         cache : {Absent, Undefined} \cup {Object(g) : g \in PassedCache}]}

InitOptions ==
    /\ Idle
    /\ args \in PassedOptions
    /\ returned = <<>>

Construct ==
    /\ returned = <<>>
    /\ returned' = <<constructorOptions(args)>>
    /\ UNCHANGED <<queries, queryMap, keys, options, ext, hung, args>>

NextOptions == Construct

SpecOptions == InitOptions /\ [][NextOptions]_vars

-----------------------------------------------------------------------------
(* The translation proxy of i18n/lib.ts.  A text is a sequence of pieces;  *)
(* a language is an object whose values are <<"string", text>> or          *)
(* <<"object", group>>.                                                    *)

\* the language of i18n.test.ts
testlang ==
    [key \in {"Empty", "TranslationNotFound", "Campfire", "channel"} |->
        CASE key = "Empty" -> <<"string", <<>>>>
          [] key = "TranslationNotFound" -> <<"string", <<"TNF for '", "{key}", "'">>>>
          [] key = "Campfire" -> <<"string", <<"campfire">>>>
          [] key = "channel" ->
                Object([f \in {"MessagePlaceholder"} |-> <<"string", <<"Message ", "{channel}">>>>])]

\* String(Symbol.toPrimitive), standing for the symbol
toPrimitive == "Symbol(Symbol.toPrimitive)"

\* a TypeError
Throws == <<"throws">>

\* path.join(sep)
RECURSIVE join(_, _)
join(path, sep) ==
    IF path = <<>> THEN <<>>
    ELSE IF Len(path) = 1 THEN path
    ELSE <<path[1], sep>> \o join(Tail(path), sep)

\* text.replace(/\{key\}/g, by)
RECURSIVE replace(_, _)
replace(text, by) ==
    IF text = <<>> THEN <<>>
    ELSE (IF Head(text) = "{key}" THEN by ELSE <<Head(text)>>) \o replace(Tail(text), by)

\* the `notFound` of proxyNotFound ("?") and of proxyFound ("!")
notFoundKey(lang, foundPath, mark, extraPath) ==
    replace(lang["TranslationNotFound"][2],
            join(foundPath, ".") \o <<mark>>
                \o (IF Len(extraPath) > 0 THEN <<".">> \o join(extraPath, ".") ELSE <<>>))

\* the proxies, by what they were made of
proxyGen(lang, path, content) == [kind |-> "proxyGen", path |-> path, content |-> content]
proxyNotFound(lang, foundPath, extraPath) ==
    [kind |-> "proxyNotFound", foundPath |-> foundPath, extraPath |-> extraPath]
proxyFound(lang, foundPath, val, extraPath) ==
    [kind |-> "proxyFound", foundPath |-> foundPath, val |-> val, extraPath |-> extraPath]
\* `() => value`
thunk(value) == [kind |-> "thunk", value |-> value]

\* `prop in target` and `target[prop]` of a plain object, which inherits
\* toString
has(target, prop) == prop \in DOMAIN target \/ prop = "toString"
member(target, prop) ==
    IF prop \in DOMAIN target THEN target[prop] ELSE <<"function", "Object.prototype.toString">>

\* the `get` traps: proxy[prop]
proxyGet(lang, proxy, prop) ==
    CASE proxy.kind = "proxyGen" ->
            IF Len(proxy.path) = 0 /\ prop = "_get" THEN [kind |-> "_get"]
            ELSE LET currentPath == Append(proxy.path, prop) IN
                 IF ~has(proxy.content, prop) THEN proxyNotFound(lang, currentPath, <<>>)
                 ELSE IF member(proxy.content, prop)[1] = "object"
                      THEN proxyGen(lang, currentPath, member(proxy.content, prop)[2])
                      ELSE proxyFound(lang, currentPath, member(proxy.content, prop), <<>>)
      [] proxy.kind = "proxyNotFound" ->
            IF prop \in {toPrimitive, "toString"}
            THEN thunk(<<"string", notFoundKey(lang, proxy.foundPath, "?", proxy.extraPath)>>)
            ELSE proxyNotFound(lang, proxy.foundPath, Append(proxy.extraPath, prop))
      [] proxy.kind = "proxyFound" ->
            IF prop \in {toPrimitive, "toString"}
            THEN thunk(IF Len(proxy.extraPath) = 0 THEN proxy.val
                       ELSE <<"string", notFoundKey(lang, proxy.foundPath, "!", proxy.extraPath)>>)
            ELSE proxyFound(lang, proxy.foundPath, proxy.val, Append(proxy.extraPath, prop))

\* proxy(): the proxy of a group has a target that is no function; `_get`
\* splits its key, here undefined; fn runs with args = {}
call(lang, proxy) ==
    CASE proxy.kind = "proxyGen" -> Throws
      [] proxy.kind = "_get" -> Throws
      [] proxy.kind = "thunk" -> proxy.value
      [] proxy.kind = "proxyNotFound" ->
            <<"string", notFoundKey(lang, proxy.foundPath, "?", proxy.extraPath)>>
      [] proxy.kind = "proxyFound" ->
            IF Len(proxy.extraPath) # 0
            THEN <<"string", notFoundKey(lang, proxy.foundPath, "!", proxy.extraPath)>>
            ELSE proxy.val

\* String(proxy): the method under Symbol.toPrimitive is called and has to
\* return a primitive
String(lang, proxy) ==
    IF call(lang, proxyGet(lang, proxy, toPrimitive))[1] = "string"
    THEN call(lang, proxyGet(lang, proxy, toPrimitive))
    ELSE Throws

\* proxy.a.b.c for path <<a, b, c>>
RECURSIVE access(_, _, _)
access(lang, proxy, path) ==
    IF path = <<>> THEN proxy
    ELSE access(lang, proxyGet(lang, proxy, Head(path)), Tail(path))

\* the properties asked for: two translations, a group, a translation of
\* the group and a name that is in no group
Props == {"Campfire", "channel", "MessagePlaceholder", "thisDoesntExist"}

RECURSIVE PathsOfLength(_)
PathsOfLength(n) ==
    IF n = 0 THEN {<<>>} ELSE {Append(p, prop) : p \in PathsOfLength(n - 1), prop \in Props}

\* get(createI18n(language, {en: testlang})) accessed along a path, then
\* converted to a string and called
InitI18n ==
    /\ Idle
    /\ args \in UNION {PathsOfLength(n) : n \in 1..MaxPath}
    /\ returned = <<>>

Access ==
    /\ returned = <<>>
    /\ returned' = [string |-> String(testlang, access(testlang, proxyGen(testlang, <<>>, testlang), args)),
                    called |-> call(testlang, access(testlang, proxyGen(testlang, <<>>, testlang), args))]
    /\ UNCHANGED <<queries, queryMap, keys, options, ext, hung, args>>

NextI18n == Access

SpecI18n == InitI18n /\ [][NextI18n]_vars

-----------------------------------------------------------------------------
(* The claims *)

\* the result a subscriber of Query k sees
exposed(k) == currentWithCaching_(queries[k])

\* C1: a Query has at most one fetch loop in flight, and while one is in flight
\* isFetching is set: a trigger that arrives then starts no second loop and so
\* makes no call of fetchFn of its own.
C1_OneFetchLoop ==
    \A k \in Keys :
        /\ Len(queries[k].loops) <= 1
        /\ queries[k].loops # <<>> => queries[k].isFetching

\* a trigger arrived ("Fetcher called while already fetching") while the one
\* loop awaits fetchFn
C1_Witness ==
    \E k \in Keys :
        /\ queries[k].history.alreadyFetching
        /\ Len(queries[k].loops) = 1
        /\ queries[k].loops[1].pc = "fetch"

\* C2: fetchFn is never called while stoppedBy is non-empty, and a loop that
\* starts, or resumes after a retry wait, with stoppedBy non-empty leaves
\* current idle, isFetching cleared and no loop in flight (until a later
\* answer of a dependency of the same handler empties stoppedBy and starts a
\* loop that calls fetchFn).
C2_StoppedNeverFetches ==
    \A k \in Keys :
        /\ ~queries[k].history.fetchedStopped
        /\ (queries[k].history.exit = "stopped" /\ ~queries[k].history.fetched) =>
              /\ queries[k].current = QueryResultIdle
              /\ ~queries[k].isFetching
              /\ queries[k].loops = <<>>

\* a loop resumed after a retry wait, found stoppedBy non-empty and ended
C2_Witness ==
    \E k \in Keys :
        /\ queries[k].history.exit = "stopped"
        /\ queries[k].history.retries # <<>>

\* C3: fetchFn of a Query is not called while a key one of its
\* query-dependencies names has no Query in the query map.
C3_NoFetchBeforeDependencyRegistered ==
    \A k \in Keys : ~queries[k].history.fetchedUnregistered

\* C4: the exposed result of a Query of the query map is idle only if
\* stoppedBy is non-empty.
C4_IdleOnlyWhenStopped ==
    \A k \in Keys :
        getQuery(queryMap, keys[k]) # "undefined" =>
            (exposed(k).status = "idle" => queries[k].stoppedBy # {})

\* C5: when a fetch loop ends on ['ok', d], current is ok with data d, the
\* cache holds d and hasCached is set.
C5_OkIsCached ==
    \A k \in Keys :
        queries[k].history.exit = "ok" =>
            /\ queries[k].current = QueryResultOk(queries[k].history.result[2])
            /\ queries[k].cache.hasCached
            /\ queries[k].cache.data = <<"some", queries[k].history.result[2]>>

\* a loop ended on ['ok', 2] at its second call of fetchFn
C5_Witness ==
    \E k \in Keys :
        /\ queries[k].history.exit = "ok"
        /\ queries[k].history.result = <<"ok", 2>>
        /\ queries[k].history.calls = 2

\* C6: when a fetch loop ends on ['err', e], the exposed result is err with
\* isRefetching false and err e.
C6_ErrIsExposed ==
    \A k \in Keys :
        queries[k].history.exit = "err" =>
            exposed(k) = QueryResultErr(FALSE, queries[k].history.result[2])

C8_BackOffShowsError ==
    \A k \in Keys : \A li \in 1..Len(queries[k].loops) :
        (/\ queries[k].loops[li].pc = "wait"
         /\ queries[k].loops[li].result[2].returnError) =>
            /\ exposed(k) = QueryResultErr(TRUE, queries[k].loops[li].result[2].err)
            /\ ~queries[k].cache.hasCached

\* C9: with onRetry answering 0, 0, false to the counts 1, 2, 3 and fetchFn
\* always answering ['retry', {returnError: false}], the loop ends after exactly
\* 3 calls of fetchFn, onRetry having seen the counts 1, 2, 3, with current err
\* and isRefetching false.
C9_ThreeCallsThenErr ==
    \A k \in Keys :
        (/\ options[k].onRetry = "twoRetries"
         /\ queries[k].history.exit = "retry"
         /\ ~queries[k].history.returnedError) =>
            /\ queries[k].history.calls = 3
            /\ queries[k].history.retries = <<1, 2, 3>>
            /\ queries[k].current = QueryResultErr(FALSE, queries[k].history.result[2].err)

\* onRetry answered false and ended a loop whose every result was
\* ['retry', {returnError: false}]
C9_Witness ==
    \E k \in Keys :
        /\ options[k].onRetry = "twoRetries"
        /\ queries[k].history.exit = "retry"
        /\ ~queries[k].history.returnedError

\* C10: with the default onRetry a fetch that keeps answering retry is called
\* exactly 3 times (the first call and 2 more) before the loop ends in err.
C10_DefaultRetriesTwice ==
    \A k \in Keys :
        (/\ options[k].onRetry = "default"
         /\ queries[k].history.exit = "retry") =>
            queries[k].history.calls = 3

\* the count the last call of onRetry of Query k was given
countPassed(k) ==
    LET q == queries[k]
        retries == IF q.loops # <<>> THEN q.loops[1].retries ELSE q.history.retries
    IN retries[Len(retries)]

\* C11: the count given to onRetry is the number of calls of fetchFn since
\* fetchFn last returned ['ok', _], the call that just returned included (both
\* read up to MaxAttempts): a loop that ended in err or stopped does not reset it.
C11_CountIsAttemptsSinceSuccess ==
    \A k \in Keys :
        (/\ queries[k].history.handler = <<"fetchReturns">>
         /\ queries[k].history.result[1] = "retry") =>
            queries[k].attempts =
                IF countPassed(k) < MaxAttempts THEN countPassed(k) ELSE MaxAttempts

\* Query q has cached data and exposes it
servesCache(q) ==
    /\ q.cache.hasCached
    /\ q.cache.data[1] = "some"
    /\ currentWithCaching_(q) = QueryResultOk(q.cache.data[2])

\* the step to q is markStale(key) or a step of the fetch loop that does not
\* end the loop
revalidating(q) ==
    /\ q.history.handler \in {<<"markStale">>, <<"fetchReturns">>, <<"retryWaitOver">>}
    /\ q.history.exit = "none"

\* the step to q is fetchFn returning ['retry', {returnError: true}]
retryReturnsError(q) ==
    /\ q.history.handler = <<"fetchReturns">>
    /\ q.history.result[1] = "retry"
    /\ q.history.result[2].returnError

\* C12 as stated: a Query that has cached data and exposes it keeps exposing it
\* through markStale(key) without forceRefetch and, from then on, through every
\* step of the fetch loop that does not end the loop.
C12_CachedUntilTerminal ==
    [][\A k \in Keys :
          (/\ servesCache(queries[k])
           /\ queries[k].markedStale \/ queries'[k].history.handler = <<"markStale">>
           /\ revalidating(queries'[k])) =>
              currentWithCaching_(queries'[k]) = currentWithCaching_(queries[k])]_vars

\* C12: a Query that has cached data and exposes it keeps exposing it through
\* markStale(key) without forceRefetch and, from then on, through every step of
\* the fetch loop that does not end the loop, except fetchFn returning
\* ['retry', {returnError: true}].
C12_CachedWhileRevalidating ==
    [][\A k \in Keys :
          (/\ servesCache(queries[k])
           /\ queries[k].markedStale \/ queries'[k].history.handler = <<"markStale">>
           /\ revalidating(queries'[k])
           /\ ~retryReturnsError(queries'[k])) =>
              currentWithCaching_(queries'[k]) = currentWithCaching_(queries[k])]_vars

\* after markStale(key), fetchFn returned ['retry', {returnError: false}] to the
\* loop that revalidates the cached data: current is loading, the cached data
\* is exposed
C12_Witness ==
    \E k \in Keys :
        /\ queries[k].markedStale
        /\ queries[k].history.handler = <<"fetchReturns">>
        /\ queries[k].history.result[1] = "retry"
        /\ queries[k].loops # <<>>
        /\ queries[k].current = QueryResultLoading
        /\ servesCache(queries[k])

\* C13: when refetch(key) or invalidateAndRefetch(key) returns for a Query of
\* the query map with stoppedBy empty, a fetch loop is in flight and isFetching
\* is set, whatever the subscribers and refetchIfUnused; after
\* invalidateAndRefetch(key) hasCached is false.
C13_RefetchStartsLoop ==
    \A k \in Keys :
        /\ (/\ queries[k].history.handler \in {<<"refetch">>, <<"invalidateAndRefetch">>}
            /\ queries[k].stoppedBy = {}) =>
               /\ queries[k].isFetching
               /\ Len(queries[k].loops) = 1
        /\ queries[k].history.handler = <<"invalidateAndRefetch">> =>
               ~queries[k].cache.hasCached

\* refetch(key) started a loop, which called fetchFn, for a Query without
\* subscribers whose refetchIfUnused is false
C13_Witness ==
    \E k \in Keys :
        /\ queries[k].history.handler = <<"refetch">>
        /\ queries[k].history.fetched
        /\ queries[k].subscribers = 0
        /\ ~options[k].stale.refetchIfUnused

\* C14: markStale(key) and invalidate(key), called while no loop is in flight
\* and stoppedBy is empty, start a fetch loop (which calls fetchFn) exactly if
\* the Query is in use or refetchIfUnused is set; without subscribers and with
\* refetchIfUnused false they do not call fetchFn.
C14_MarkStaleFetchesIfUsed ==
    [][\A k \in Keys :
          queries'[k].history.handler \in {<<"markStale">>, <<"invalidate">>} =>
              /\ (~queries[k].isFetching /\ queries[k].stoppedBy = {}) =>
                     /\ queries'[k].history.fetched <=>
                            (queries'[k].dataInUse \/ options[k].stale.refetchIfUnused)
                     /\ queries'[k].loops # <<>> <=>
                            (queries'[k].dataInUse \/ options[k].stale.refetchIfUnused)
              /\ (queries'[k].subscribers = 0 /\ ~options[k].stale.refetchIfUnused) =>
                     ~queries'[k].history.fetched]_vars

\* invalidate(key) started a loop, which called fetchFn, for a Query without
\* subscribers whose refetchIfUnused is true
C14_Witness ==
    \E k \in Keys :
        /\ queries[k].history.handler = <<"invalidate">>
        /\ queries[k].history.fetched
        /\ queries[k].subscribers = 0
        /\ options[k].stale.refetchIfUnused

\* C15: markStale(key) and refetch(key) leave the cache (hasCached, data,
\* expiresAt, duration, the handle of its timer) and the pending cache-expiry
\* timer as they were; they set isStale, cancel the staleness timer and clear
\* stale.duration and stale.turnsStaleAt, and leave the subscribers, dataInUse
\* and stoppedBy alone.
C15_MarkStaleKeepsCache ==
    [][\A k \in Keys :
          queries'[k].history.handler \in {<<"markStale">>, <<"refetch">>} =>
              /\ queries'[k].cache = queries[k].cache
              /\ queries'[k].timers.cache = queries[k].timers.cache
              /\ queries'[k].stale = [turnsStaleAt |-> False, duration |-> False,
                                      timeout |-> NoTimeout, isStale |-> TRUE]
              /\ queries'[k].timers.stale = {}
              /\ queries'[k].subscribers = queries[k].subscribers
              /\ queries'[k].dataInUse = queries[k].dataInUse
              /\ queries'[k].stoppedBy = queries[k].stoppedBy]_vars

\* refetch(key) started a loop for a Query that has cached data and a pending
\* cache-expiry timer
C15_Witness ==
    \E k \in Keys :
        /\ queries[k].history.handler = <<"refetch">>
        /\ queries[k].history.fetched
        /\ queries[k].cache.hasCached
        /\ queries[k].cache.expiresAt # False
        /\ queries[k].cache.timeout \in queries[k].timers.cache

\* C16: when updateData(key, v) returns, current is ok{v}, the cache holds v
\* with hasCached set, the exposed result is ok{v}, the staleness and the
\* cache-expiry timers pending before are cancelled and new ones are pending
\* where the durations computed from v are numbers, and fetchFn was not
\* called.
C16_UpdateDataSetsData ==
    [][\A k \in Keys : \A v \in Data :
          queries'[k].history.handler = <<"updateData", v>> =>
              LET q == queries'[k]
                  staleDuration == duration(options[k].stale.duration, QueryResultOk(v))
                  cacheDuration == duration(options[k].cache.duration, v)
              IN  /\ q.current = QueryResultOk(v)
                  /\ q.cache.data = <<"some", v>>
                  /\ q.cache.hasCached
                  /\ currentWithCaching_(q) = QueryResultOk(v)
                  /\ q.stale.duration = staleDuration
                  /\ q.stale.turnsStaleAt = (IF staleDuration = False THEN False ELSE Date)
                  /\ q.timers.stale = (IF staleDuration = False THEN {} ELSE {q.stale.timeout})
                  /\ q.timers.stale \cap queries[k].timers.stale = {}
                  /\ q.cache.duration = cacheDuration
                  /\ q.cache.expiresAt = (IF cacheDuration = False THEN False ELSE Date)
                  /\ q.timers.cache = (IF cacheDuration = False THEN {} ELSE {q.cache.timeout})
                  /\ q.timers.cache \cap queries[k].timers.cache = {}
                  /\ ~q.history.fetched
                  /\ q.loops = queries[k].loops]_vars

\* updateData(key, 2) returned for a Query whose cache expires, while its fetch
\* loop awaits fetchFn
C16_Witness ==
    \E k \in Keys :
        /\ queries[k].history.handler = <<"updateData", 2>>
        /\ options[k].cache.duration = "timed"
        /\ queries[k].cache.timeout \in queries[k].timers.cache
        /\ queries[k].loops # <<>>

\* C17 as stated: when the cache-expiry timer fires, hasCached becomes false,
\* the Query is stale, and a fetch loop starts (fetchFn is called) exactly if
\* the Query is in use or refetchIfUnused is set.
C17_ExpiryRefetchesIfUsed ==
    [][\A k \in Keys :
          queries'[k].history.handler = <<"cacheTimeout">> =>
              /\ ~queries'[k].cache.hasCached
              /\ queries'[k].stale.isStale
              /\ queries'[k].history.fetched <=>
                     (queries'[k].dataInUse \/ options[k].stale.refetchIfUnused)]_vars

\* C17: the cache-expiry timer is pending exactly while the Query has cached
\* data whose cache duration is a number (from the setData that cached it
\* until a setData, a clearCache or its firing); when it fires, hasCached
\* becomes false, no cache-expiry timer is pending, the Query is stale, and, if
\* no loop is in flight and stoppedBy is empty, a fetch loop starts (fetchFn is
\* called) exactly if the Query is in use or refetchIfUnused is set; if a loop
\* is in flight it goes on and no other starts.
C17_CacheExpiry ==
    [][\A k \in Keys :
          /\ queries'[k].timers.cache =
                 (IF queries'[k].cache.hasCached /\ queries'[k].cache.duration # False
                  THEN {queries'[k].cache.timeout} ELSE {})
          /\ queries'[k].history.handler = <<"cacheTimeout">> =>
                 /\ queries[k].timers.cache # {}
                 /\ ~queries'[k].cache.hasCached
                 /\ queries'[k].stale.isStale
                 /\ (~queries[k].isFetching /\ queries[k].stoppedBy = {}) =>
                        /\ queries'[k].history.fetched <=>
                               (queries'[k].dataInUse \/ options[k].stale.refetchIfUnused)
                        /\ queries'[k].loops # <<>> <=>
                               (queries'[k].dataInUse \/ options[k].stale.refetchIfUnused)
                 /\ queries[k].isFetching =>
                        /\ ~queries'[k].history.fetched
                        /\ queries'[k].loops = queries[k].loops]_vars

\* the cache-expiry timer fired for a Query in use and without a loop in
\* flight: a loop started and called fetchFn
C17_Witness ==
    \E k \in Keys :
        /\ queries[k].history.handler = <<"cacheTimeout">>
        /\ queries[k].history.fetched
        /\ queries[k].dataInUse
        /\ ~options[k].stale.refetchIfUnused

\* C18: when the first subscriber attaches (no loop being in flight, stoppedBy
\* empty), fetchFn is called exactly if onSubscribeIfUnused is set or the Query
\* is stale; with onSubscribeIfUnused false, a first subscriber of a Query
\* whose last fetch loop ended in ok and that has not been marked stale since
\* does not call fetchFn.
C18_FirstSubscriberFetchesIfStale ==
    [][\A k \in Keys :
          (/\ queries'[k].history.handler = <<"subscribe">>
           /\ queries[k].subscribers = 0) =>
              /\ (~queries[k].isFetching /\ queries[k].stoppedBy = {}) =>
                     (queries'[k].history.fetched <=>
                         (options[k].stale.onSubscribeIfUnused \/ queries[k].stale.isStale))
              /\ (~options[k].stale.onSubscribeIfUnused /\ queries[k].freshOk) =>
                     ~queries'[k].history.fetched]_vars

\* C19: once a fetch loop has ended in ok, and until markStale is called (by
\* the API, clearCache or the staleness timer), isStale is false; it is false
\* when updateData(key, v) returns.
C19_FreshIsNotStale ==
    \A k \in Keys :
        (queries[k].freshOk \/ queries[k].history.handler[1] = "updateData") =>
            ~queries[k].stale.isStale

\* C20: while isStale is true no staleness timer is pending, and
\* stale.turnsStaleAt and stale.duration are false.
C20_StaleHasNoTimer ==
    \A k \in Keys :
        queries[k].stale.isStale =>
            /\ queries[k].timers.stale = {}
            /\ queries[k].stale.turnsStaleAt = False
            /\ queries[k].stale.duration = False

\* C21: after the onChange of dependency i, of either kind, returned r and its
\* branch has run, i is in stoppedBy exactly if r is 'stop', the other indices
\* of stoppedBy are as before, hasCached is false if r is 'clearCacheAndRefetch'
\* or 'stop' and the cache is as before otherwise, and after 'refetch' a fetch
\* loop is in flight unless another dependency stops the Query.
C21_OnChangeBranches ==
    \A k \in Keys : \A n \in 1..Len(queries[k].history.onChange) :
        LET c == queries[k].history.onChange[n] IN
        /\ c.i \in c.after.stoppedBy <=> c.result = "stop"
        /\ c.after.stoppedBy \ {c.i} = c.before.stoppedBy \ {c.i}
        /\ c.result \in {"clearCacheAndRefetch", "stop"} => ~c.after.hasCached
        /\ c.result \in {"nothing", "refetch"} =>
               /\ c.after.hasCached = c.before.hasCached
               /\ c.after.data = c.before.data
        /\ (c.result = "refetch" /\ c.after.stoppedBy = {}) =>
               /\ c.after.isFetching
               /\ c.after.loops = 1

\* the onChange of a query-dependency answered 'refetch' to a Query that has
\* cached data: the cache is kept and a loop is in flight
C21_Witness ==
    \E k \in Keys : \E n \in 1..Len(queries[k].history.onChange) :
        LET c == queries[k].history.onChange[n] IN
        /\ options[k].dependencies[c.i + 1].kind = "query"
        /\ c.result = "refetch"
        /\ c.before.hasCached
        /\ c.after.hasCached
        /\ c.after.loops = 1

\* C22: when the onChange of dependency i answers 'nothing' while i alone
\* stops the Query and current is idle, the Query is re-started: when the
\* branch has run a fetch loop is in flight and current is no longer idle.
C22_NothingRestarts ==
    \A k \in Keys : \A n \in 1..Len(queries[k].history.onChange) :
        LET c == queries[k].history.onChange[n] IN
        (/\ c.result = "nothing"
         /\ c.before.stoppedBy = {c.i}
         /\ c.before.current = QueryResultIdle) =>
            /\ c.after.loops = 1
            /\ c.after.isFetching
            /\ c.after.current # QueryResultIdle

\* dependency i of Query k is the query-dependency on dk and its callback is
\* subscribed to the `query` store of dk
wiredTo(k, i, dk) ==
    /\ i < Len(options[k].dependencies)
    /\ options[k].dependencies[i + 1].kind = "query"
    /\ options[k].dependencies[i + 1].key = dk
    /\ queries[k].deps[i + 1].promise = "wired"

\* C23: when a dependency Query whose last fetch loop ended in ok, not marked
\* stale since, becomes stale (here by invalidateAndRefetch), the onStale of
\* every query-dependency subscribed to it is called; 'becomeStale' keeps the
\* dependent's cache, 'staleAndClear' clears it, 'nothing' changes nothing.
C23_OnStaleEachTime ==
    [][\A k \in Keys, dk \in Keys : \A i \in {0, 1} :
          /\ (/\ wiredTo(k, i, dk)
              /\ queries[dk].freshOk
              /\ queries'[dk].history.handler = <<"invalidateAndRefetch">>) =>
                 \E n \in 1..Len(queries'[k].history.onStale) :
                     queries'[k].history.onStale[n].i = i
          /\ \A n \in 1..Len(queries'[k].history.onStale) :
                 LET c == queries'[k].history.onStale[n] IN
                 /\ c.result = "becomeStale" =>
                        (c.after.hasCached = c.before.hasCached /\ c.after.data = c.before.data)
                 /\ c.result = "staleAndClear" => ~c.after.hasCached
                 /\ c.result = "nothing" => c.after = c.before]_vars

\* C28: when fetchFn returns to a loop of a Query whose stoppedBy is non-empty,
\* the result is processed as ever: ['ok', d] ends the loop with current ok{d}
\* and d cached, and a retry that onRetry lets go on starts its wait; the loop
\* leaves at the stopped exit, with current idle, when the wait is over.
C28_StoppedLoopCommits ==
    \A k \in Keys :
        queries[k].stoppedBy # {} =>
            /\ (/\ queries[k].history.handler = <<"fetchReturns">>
                /\ queries[k].history.result[1] = "ok") =>
                   /\ queries[k].history.exit = "ok"
                   /\ queries[k].loops = <<>>
                   /\ queries[k].current = QueryResultOk(queries[k].history.result[2])
                   /\ queries[k].cache.hasCached
                   /\ queries[k].cache.data = <<"some", queries[k].history.result[2]>>
            /\ (/\ queries[k].history.handler = <<"fetchReturns">>
                /\ queries[k].history.result[1] = "retry"
                /\ queries[k].history.exit = "none") =>
                   /\ Len(queries[k].loops) = 1
                   /\ queries[k].loops[1].pc = "wait"
                   /\ queries[k].current # QueryResultIdle
            /\ queries[k].history.handler = <<"retryWaitOver">> =>
                   /\ queries[k].history.exit = "stopped"
                   /\ queries[k].loops = <<>>
                   /\ queries[k].current = QueryResultIdle

\* fetchFn returned ['ok', 2] to the loop of a Query stopped while the loop
\* awaited it
C28_Witness ==
    \E k \in Keys :
        /\ queries[k].stoppedBy # {}
        /\ queries[k].history.handler = <<"fetchReturns">>
        /\ queries[k].history.result = <<"ok", 2>>
        /\ queries[k].history.exit = "ok"

\* C29: once the handlers have run, every dependent whose callback is
\* subscribed to a dependency Query has been given, as `current` of its
\* onChange, the result the dependency exposes (up to deep equality), whatever
\* changed it: nothing remains to be delivered.
C29_DependentSawExposed ==
    \A k \in Keys, dk \in Keys : \A i \in {0, 1} :
        wiredTo(k, i, dk) => deepEqual(queries[k].deps[i + 1].last, exposed(dk))

at(obj, path) ==
    IF Len(path) = 1 THEN property(obj, path[1])
    ELSE IF property(obj, path[1])[1] = "object"
         THEN property(property(obj, path[1])[2], path[2])
         ELSE Undefined

OptionFields ==
    {<<"dependencies">>, <<"onRetry">>, <<"stale", "onSubscribeIfUnused">>, <<"stale", "duration">>,
     <<"stale", "refetchIfUnused">>, <<"cache", "duration">>}

\* C26: options are merged over the defaults field by field, also inside the
\* stale and cache groups: every field of the Query's options holds the value
\* passed for it, or its default if none was passed
C26_MergedFieldByField ==
    returned # <<>> =>
        \A path \in OptionFields :
            at(returned[1], path) =
                IF at(args, path)[1] # "undefined" THEN at(args, path) ELSE at(defaultOptions, path)

\* C24: getQuery(k) returns a Query if and only if useQuery(k) was called
\* before, whatever other keys (prefixes and extensions of k among them) were
\* used, and it is the Query the first useQuery(k) created: no second Query is
\* ever created for k, and a later useQuery(k) leaves the Query as it is and
\* calls no fetchFn
C24_FoundIffUsed ==
    /\ [](\A k \in Keys :
             /\ getQuery(queryMap, keys[k]) # "undefined" <=> queries[k].instances >= 1
             /\ queries[k].instances <= 1)
    /\ [][\A k \in Keys :
             queries[k].instances >= 1 /\ queries'[k].history.handler = <<"useQuery">> =>
                 /\ queries'[k] = [queries[k] EXCEPT !.history = queries'[k].history]
                 /\ ~queries'[k].history.fetched]_vars

\* a Query but for what an observer noted about it
unobserved(q) == [q EXCEPT !.history = NoHistory, !.notFound = FALSE]

\* C25: invalidate, invalidateAndRefetch, refetch, markStale and updateData of
\* a key with no Query create no Query, call no fetchFn and change no Query;
\* and the Query a later useQuery of the key creates is the one it would
\* have created without those calls
C25_NotFoundIsNoOp ==
    [][\A k \in Keys :
         /\ (\E fn \in Dispatchers : queries'[k].history.handler = <<"notFound", fn>>) =>
                /\ \A k2 \in Keys :
                      /\ unobserved(queries'[k2]) = unobserved(queries[k2])
                      /\ ~queries'[k2].history.fetched
                      /\ getQuery(queryMap', keys[k2]) = getQuery(queryMap, keys[k2])
         /\ (queries[k].notFound /\ queries[k].instances = 0 /\ queries'[k].instances = 1) =>
                /\ unobserved(queries'[k]) =
                      unobserved(constructor(
                          [World(<<>>, "nothing") EXCEPT !.qs[k] = NewQuery(options[k])], k).qs[k])
                /\ getQuery(queryMap', keys[k]) = k]_vars

C25_Witness ==
    \E k, k2 \in Keys :
        /\ queries[k].notFound
        /\ queries[k].instances = 1
        /\ getQuery(queryMap, keys[k]) = k
        /\ k2 # k
        /\ queries[k2].cache.hasCached

\* where a path leaves the language: at a translation ("leaf"), at a name
\* its group does not have ("missing"), or nowhere ("group"); with the
\* number of properties up to there
RECURSIVE classify(_, _, _)
classify(content, path, n) ==
    IF n > Len(path) THEN <<"group", Len(path)>>
    ELSE IF path[n] \notin DOMAIN content THEN <<"missing", n>>
    ELSE IF content[path[n]][1] = "string" THEN <<"leaf", n>>
    ELSE classify(content[path[n]][2], path, n + 1)

\* the translation a path ends on
RECURSIVE translationAt(_, _)
translationAt(content, path) ==
    IF Len(path) = 1 THEN content[path[1]]
    ELSE translationAt(content[path[1]][2], Tail(path))

translationNotFound(key) ==
    <<"string", <<"TNF for '">> \o key \o <<"'">>>>

\* C27: along every path, String(...) and a call give the same text, and
\* neither throws; a path ending on a translation gives the translation, a
\* path with a first missing property m after the group p gives
\* TranslationNotFound for 'p.m?' and the further properties joined by '.',
\* a path going on after the translation p gives it for 'p!' and the
\* further properties joined by '.'
C27_PathTexts ==
    returned # <<>> =>
        LET left == classify(testlang, args, 1)
            found == SubSeq(args, 1, left[2])
            extra == SubSeq(args, left[2] + 1, Len(args))
            further == IF extra = <<>> THEN <<>> ELSE <<".">> \o join(extra, ".")
        IN  /\ returned.string # Throws
            /\ returned.called # Throws
            /\ returned.string = returned.called
            /\ left[1] = "leaf" /\ extra = <<>> =>
                   returned.string = translationAt(testlang, args)
            /\ left[1] = "leaf" /\ extra # <<>> =>
                   returned.string = translationNotFound(join(found, ".") \o <<"!">> \o further)
            /\ left[1] = "missing" =>
                   returned.string = translationNotFound(join(found, ".") \o <<"?">> \o further)

\* C31: while cache.hasCached is false, the data kept in cache.data from
\* before the clear is not exposed: the exposed result is ok only if current
\* itself is that ok
C31_ClearedCacheNotExposed ==
    \A k \in Keys :
        ~queries[k].cache.hasCached /\ exposed(k).status = "ok" =>
            queries[k].current = exposed(k)

C31_Witness ==
    /\ ~queries["q"].cache.hasCached
    /\ queries["q"].cache.data[1] = "some"
    /\ queries["q"].current.status = "loading"
    /\ exposed("q").status = "loading"

\* C32: a Query has at most one staleness timer and at most one cache timer
\* pending, the one whose handle it keeps: a timer that was replaced or
\* cancelled never fires; and markStale called twice in a row leaves the
\* state the first call left, stale and without a staleness timer
C32_OneTimerOfAKind ==
    /\ [](\A k \in Keys :
             /\ Cardinality(queries[k].timers.stale) <= 1
             /\ Cardinality(queries[k].timers.cache) <= 1
             /\ queries[k].timers.stale \subseteq {queries[k].stale.timeout}
             /\ queries[k].timers.cache \subseteq {queries[k].cache.timeout})
    /\ [][\A k \in Keys :
             (/\ queries[k].history.handler = <<"markStale">>
              /\ queries'[k].history.handler = <<"markStale">>) =>
                 /\ unobserved(queries'[k]) = unobserved(queries[k])
                 /\ queries'[k].stale.isStale
                 /\ queries'[k].timers.stale = {}]_vars

C32_Witness ==
    /\ queries["q"].history.handler = <<"markStale">>
    /\ queries["q"].timers.cache # {}
    /\ queries["q"].timers.stale = {}
    /\ options["q"].stale.duration = "timed"
    /\ queries["q"].history.alreadyFetching

\* C33: dataInUse is true exactly while the exposed result has a subscriber;
\* only the subscriber that finds none before it marks the Query stale or
\* refetches, a further one adds nothing but itself; and a subscriber that
\* leaves others behind leaves dataInUse true
C33_InUseIffSubscribed ==
    /\ [](\A k \in Keys : queries[k].dataInUse <=> queries[k].subscribers >= 1)
    /\ [][\A k \in Keys :
             /\ (queries'[k].history.handler = <<"subscribe">> /\ queries[k].subscribers >= 1) =>
                    unobserved(queries'[k]) =
                        unobserved([queries[k] EXCEPT !.subscribers = @ + 1])
             /\ (queries'[k].history.handler = <<"subscribe">> /\ queries[k].subscribers = 0) =>
                    /\ queries'[k].subscribers = 1
                    /\ queries'[k].isFetching
             /\ (queries'[k].history.handler = <<"unsubscribe">> /\ queries[k].subscribers > 1) =>
                    unobserved(queries'[k]) =
                        unobserved([queries[k] EXCEPT !.subscribers = @ - 1])]_vars

C33_Witness ==
    /\ queries["q"].history.handler = <<"subscribe">>
    /\ queries["q"].subscribers = 2
    /\ queries["q"].current.status = "err"
    /\ ~queries["q"].isFetching

\* C34: the check after the fetch loop never finds `current` idle or loading,
\* whatever the subscribers told the result call from their callback (the
\* Error is never thrown), and a loop that ended leaving `current` idle ended
\* at the stoppedBy exit.
C34_LoopEndsConsistent ==
    /\ [](\A k \in Keys : ~queries[k].threw)
    /\ [][\A k \in Keys :
            /\ queries'[k].history.exit # "none"
            /\ queries'[k].current.status = "idle"
            => queries'[k].history.exit = "stopped"]_vars

\* a loop of "dep", which "q" depends on, ended with data while the subscriber
\* called for a fetch from its callback
C34_Witness ==
    /\ queries["dep"].history.handler = <<"fetchReturns">>
    /\ queries["dep"].history.exit = "ok"
    /\ queries["dep"].history.alreadyFetching
    /\ queries["dep"].subscribers > 0
    /\ queries["q"].deps[1].promise = "wired"

\* the last call of onChange of dependency i among the first n of a handler
\* (0 if there is none)
RECURSIVE lastCallOf(_, _, _)
lastCallOf(calls, i, n) ==
    IF n = 0 THEN 0
    ELSE IF calls[n].i = i THEN n
    ELSE lastCallOf(calls, i, n - 1)

\* the value dependency i of Query k had last seen before call n of onChange
\* in the handler that leads from this state to the next
lastBefore(k, calls, n) ==
    IF lastCallOf(calls, calls[n].i, n - 1) # 0
    THEN calls[lastCallOf(calls, calls[n].i, n - 1)].current
    ELSE IF queries'[k].instances # queries[k].instances THEN QUERY_INIT
    ELSE queries[k].deps[calls[n].i + 1].last

\* the query-dependencies of Query k that are subscribed to the `query` store
\* of a Query whose handler has just run
notifiedBy(k) ==
    {i \in 1..Len(queries[k].deps) :
        /\ queries[k].deps[i].promise = "wired"
        /\ queries'[options[k].dependencies[i].key].history.handler
              \in {<<"invalidateAndRefetch">>, <<"fetchReturns">>}}

\* the subscription-dependencies of Query k whose external store has just
\* been set
notifiedOf(k) ==
    {i \in 1..Len(queries[k].deps) :
        /\ queries[k].deps[i].promise = "subscribed"
        /\ \A d \in Keys : queries'[d].history.handler = <<"none">>
        /\ \A d \in Keys : \A j \in 1..Len(queries[d].deps) :
              queries'[d].deps[j].promise = queries[d].deps[j].promise}

\* C35: onChange, of either kind of dependency, is never called with a
\* `current` equal to the dependency's `last`, which is QUERY_INIT before the
\* first call and the `current` of the call before at the others; a
\* callback that observed a value equal to `last` calls nothing and leaves
\* stoppedBy, the cache and the fetch state of the Query as they were.
C35_OnChangeOnlyOnDifference ==
    [][~hung' => \A k \in Keys :
        LET calls == queries'[k].history.onChange
        IN  /\ \A n \in 1..Len(calls) :
                  /\ calls[n].current # lastBefore(k, calls, n)
                  /\ queries'[k].deps[calls[n].i + 1].last =
                        calls[lastCallOf(calls, calls[n].i, Len(calls))].current
            /\ \A i \in 1..Len(queries[k].deps) :
                  queries[k].deps[i].promise \in {"none", "pending", "resolved"}
                  => queries[k].deps[i].last = QUERY_INIT
            /\ (/\ notifiedBy(k) \cup notifiedOf(k) # {}
                /\ calls = <<>>
                /\ queries'[k].history.handler = <<"none">>)
               => /\ view(queries'[k]) = view(queries[k])
                  /\ queries'[k].deps = queries[k].deps]_vars

\* the dependency has fetched data again and its dependent, which had seen
\* its result, was told so: the result it sees is the same, no onChange
C35_Witness ==
    /\ ~hung
    /\ queries["dep"].history.handler = <<"fetchReturns">>
    /\ queries["dep"].history.exit = "ok"
    /\ queries["q"].history.onChange = <<>>
    /\ queries["q"].deps[1].promise = "wired"
    /\ queries["q"].deps[1].last = exposed("dep")
    /\ queries["q"].stoppedBy = {}

\* C36: when refetch or invalidateAndRefetch of a key has returned, the next
\* value committed to the cache of its Query is the result of a call of
\* fetchFn made by that call or later: a result committed by the handler
\* right after the call comes from a call of fetchFn the call made.
C36_CommitsFetchAfterCall ==
    [][\A k \in Keys :
        /\ queries[k].history.handler \in {<<"refetch">>, <<"invalidateAndRefetch">>}
        /\ queries'[k].history.handler = <<"fetchReturns">>
        /\ queries'[k].history.exit = "ok"
        /\ queries'[k].cache.hasCached
        => queries[k].history.fetched]_vars

\* C37: a fetch loop, once started, ends with isFetching false, when every
\* call of fetchFn resolves and every retry wait is over in the end (onRetry
\* answers false after finitely many retries, or the Query is stopped); while
\* isFetching is true a loop is in flight.
C37_LoopsEnd ==
    /\ \A k \in Keys : queries[k].isFetching ~> ~queries[k].isFetching
    /\ [](\A k \in Keys : queries[k].isFetching => Len(queries[k].loops) = 1)

\* a loop that was waiting to retry found the Query stopped and ended
C37_Witness ==
    /\ queries["q"].history.handler = <<"retryWaitOver">>
    /\ queries["q"].history.exit = "stopped"
    /\ queries["q"].history.retries # <<>>
    /\ ~queries["q"].isFetching
    /\ queries["q"].loops = <<>>

\* C38: whenever a Query has a subscriber, is not stopped and shows the
\* result loading, a fetch loop of it is in flight (isFetching is true).
C38_LoadingMeansFetching ==
    \A k \in Keys :
        /\ queries[k].subscribers >= 1
        /\ queries[k].dataInUse
        /\ queries[k].stoppedBy = {}
        /\ exposed(k).status = "loading"
        => queries[k].isFetching /\ queries[k].loops # <<>>

\* what a dependent could perturb of its dependency
perturbable(q) ==
    [subscribers |-> q.subscribers, dataInUse |-> q.dataInUse, stale |-> q.stale,
     timers |-> q.timers, isFetching |-> q.isFetching, loops |-> q.loops,
     attempts |-> q.attempts, current |-> q.current, cache |-> q.cache]

\* the step is the `.then` of addDependencyQuery of dependency i of Query k
wiring(k, i) ==
    /\ queries[k].deps[i].promise = "resolved"
    /\ queries'[k].deps[i].promise = "wired"

\* C39: when a dependent is wired to its dependency and reads its result, the
\* dependency is as it was: the same subscribers and dataInUse, not marked
\* stale, its stale timer pending, no call of fetchFn.
C39_DependencyUnperturbed ==
    [][\A k \in Keys : \A i \in 1..Len(queries[k].deps) :
        wiring(k, i)
        => perturbable(queries'[options[k].dependencies[i].key])
             = perturbable(queries[options[k].dependencies[i].key])]_vars

\* C40: a handler that updates the state of a Query notifies its dependents
\* finitely often and returns, with or without a subscriber of the Query
\* (every dependent is wired: the handler is not the wiring of one).
C40_NotificationsEnd ==
    [][(/\ \E k \in Keys : hasDependents(k)
        /\ \A d \in Keys : \A i \in 1..Len(queries[d].deps) :
              queries[d].deps[i].promise # "resolved")
       => ~hung']_vars

====
